---- MODULE Spec2Model ----
(***************************************************************************)
(* A model of the sieve pager (src/README.md holds the current program     *)
(* text, src/main.go an earlier revision of the same file).                *)
(*                                                                         *)
(* State: the viewer stack of the App, its search state and status         *)
(* message, the prompt the event loop is blocked in, the file loader and   *)
(* the filter goroutines (one per filtered viewer, kept inside the viewer  *)
(* it populates).  Line indices, topLine and origin indices are 0-based as *)
(* in the Go code; TLA+ sequences are 1-based, so line i is lines[i + 1].  *)
(***************************************************************************)
EXTENDS Integers, Sequences, FiniteSets, TLC

VARIABLES
    file,           \* the lines of the file on disk
    viewers,        \* ViewerStack.viewers
    search,         \* App.search
    statusMessage,  \* App.statusMessage
    prompt,         \* the prompt the event loop is blocked in, if any
    loader,         \* position of the loadFromReader goroutine
    tailers,        \* the followFile goroutines that have not returned
    history,        \* App.history and the history file
    merger,         \* the goroutine of NewViewerFromMultipleFiles
    visual,         \* App.visualMode, visualStart, visualCursor
    last            \* the step taken last (for stating the claims)

vars == <<file, viewers, search, statusMessage, prompt, loader, tailers, history, merger,
          visual, last>>

----------------------------------------------------------------------------
(* Bounds of the model *)

MaxFileLen == 3
MaxDepth == 3
SearchDepth == 2
FollowDepth == 2
MaxTailers == 1
TwoTailers == 2
Height == 2
BigFileMax == 16
MaxAdds == 2
MaxUps == 3
AppendFileLen == 6
AppendDepth == 3
MergeStreams == 3
SearchFileLen == 5
AnsiLineLen == 4

(* Program constants *)

numWorkers == 8
batchSize == 10000
maxHistoryEntries == 100

----------------------------------------------------------------------------
(* Characters and lines.  A line is a sequence of one-character strings;   *)
(* ESC stands for the byte 0x1b.                                           *)

ESC == "ESC"

Letters == {"a", "b", "A", "B", "m", "x", "s", "h", "o", "r", "t"}

La == <<"a">>
Lb == <<"b">>
LaColored == <<ESC, "[", "m", "a">>
LAb == <<"A", "b">>

\* The content of the file: line i (1-based) of every file of the model.
FileLine(i) ==
    CASE i % 4 = 1 -> LAb
      [] i % 4 = 2 -> La
      [] i % 4 = 3 -> LaColored
      [] OTHER     -> Lb

FileOfLen(n) == [i \in 1..n |-> FileLine(i)]

Files == {FileOfLen(n) : n \in 0..MaxFileLen}

\* Files with one line per worker, with one line more (fewer workers start
\* than numWorkers) and with several lines per worker.
BigFiles == {FileOfLen(n) : n \in {numWorkers, numWorkers + 1, BigFileMax}}

\* What the user types at a filter prompt: <<query, isRegex, ignoreCase>>.
\* Nothing, a literal, a regex that does not compile.
FilterInputs ==
    {<< <<>>, FALSE, FALSE >>, << <<"a">>, FALSE, FALSE >>, << <<"(">>, TRUE, FALSE >>}

\* The inputs of the runs on a big file: a literal, a case-insensitive regex
\* and a regex that does not compile.
BigFilterInputs ==
    {<< <<"a">>, FALSE, FALSE >>, << <<"b">>, TRUE, TRUE >>, << <<"(">>, TRUE, FALSE >>}

\* What the user types at a search prompt.
SearchInputs == {<< <<>>, FALSE, FALSE >>, << <<"a">>, FALSE, FALSE >>}

\* The searches of the runs about searching: nothing, a literal, a literal
\* that occurs only inside an escape sequence, a case-insensitive literal, a
\* regex and a regex that does not compile.
FindInputs ==
    {<< <<>>, FALSE, FALSE >>, << <<"a">>, FALSE, FALSE >>, << <<"m">>, FALSE, FALSE >>,
     << <<"B">>, FALSE, TRUE >>, << <<".", "b">>, TRUE, FALSE >>, << <<"(">>, TRUE, FALSE >>}

Min(a, b) == IF a < b THEN a ELSE b

Max(a, b) == IF a > b THEN a ELSE b

----------------------------------------------------------------------------
(* Text helpers *)

lineHasANSI(s) == \E i \in 1..Len(s) : s[i] = ESC

\* The index just after the escape sequence that starts at i (s[i] = ESC, s[i+1] = "[").
RECURSIVE SkipToLetter(_, _)
SkipToLetter(s, j) ==
    IF j <= Len(s) /\ s[j] \notin Letters THEN SkipToLetter(s, j + 1) ELSE j

RECURSIVE StripFrom(_, _)
StripFrom(s, i) ==
    IF i > Len(s) THEN <<>>
    ELSE IF s[i] = ESC /\ i + 1 <= Len(s) /\ s[i + 1] = "["
         THEN LET j == SkipToLetter(s, i + 2)
              IN  StripFrom(s, IF j <= Len(s) THEN j + 1 ELSE j)
         ELSE <<s[i]>> \o StripFrom(s, i + 1)

stripANSI(s) == StripFrom(s, 1)

\* The index (1-based) of the first "m" at or after j, Len(runes) + 1 if none.
RECURSIVE FindM(_, _)
FindM(runes, j) ==
    IF j <= Len(runes) /\ runes[j] # "m" THEN FindM(runes, j + 1) ELSE j

\* A screen cell.  The colours applyANSICodes computes are not modelled.
Cell(r) == [ch |-> r]

\* The slow path of parseANSI, from rune i (1-based).
RECURSIVE ParseFrom(_, _)
ParseFrom(runes, i) ==
    IF i > Len(runes) THEN <<>>
    ELSE LET end == FindM(runes, i + 2)
         IN  IF runes[i] = ESC /\ i + 1 <= Len(runes) /\ runes[i + 1] = "["
                /\ end <= Len(runes)
             THEN ParseFrom(runes, end + 1)
             ELSE <<Cell(runes[i])>> \o ParseFrom(runes, i + 1)

parseANSI(line) ==
    IF ~lineHasANSI(line)
    THEN [k \in 1..Len(line) |-> Cell(line[k])]
    ELSE ParseFrom(line, 1)

\* findJSONStart: the index (0-based) of the first '{' or '[', -1 if none.
findJSONStart(line) ==
    LET opens == {i \in 0..(Len(line) - 1) : line[i + 1] \in {"{", "["}}
    IN  IF opens = {} THEN -1 ELSE CHOOSE i \in opens : \A j \in opens : i <= j

\* The scan of findJSONEnd from index i (0-based).  The lines of the model
\* hold no quote and no backslash, so inString and escaped stay false.
RECURSIVE JSONEndFrom(_, _, _, _, _)
JSONEndFrom(line, i, depth, openChar, closeChar) ==
    IF i >= Len(line) THEN -1
    ELSE LET c == line[i + 1]
         IN  IF c = openChar THEN JSONEndFrom(line, i + 1, depth + 1, openChar, closeChar)
             ELSE IF c = closeChar
             THEN (IF depth - 1 = 0 THEN i
                   ELSE JSONEndFrom(line, i + 1, depth - 1, openChar, closeChar))
             ELSE JSONEndFrom(line, i + 1, depth, openChar, closeChar)

findJSONEnd(line, jsonStart) ==
    IF jsonStart < 0 \/ jsonStart >= Len(line) THEN -1
    ELSE LET openChar == line[jsonStart + 1]
         IN  IF openChar = "{" THEN JSONEndFrom(line, jsonStart, 0, "{", "}")
             ELSE IF openChar = "[" THEN JSONEndFrom(line, jsonStart, 0, "[", "]")
             ELSE -1

isJSON(line) ==
    LET jsonStart == findJSONStart(line)
    IN  jsonStart # -1 /\ findJSONEnd(line, jsonStart) # -1

\* json.Indent accepts the text.  The JSON of the model is an array of
\* numbers of one digit, without spaces: "[]", "[1]", "[1,1]", ...
ValidJSON(part) ==
    /\ Len(part) >= 2
    /\ part[1] = "["
    /\ part[Len(part)] = "]"
    /\ LET inner == SubSeq(part, 2, Len(part) - 1)
       IN  \/ inner = <<>>
           \/ /\ Len(inner) % 2 = 1
              /\ \A k \in 1..Len(inner) :
                    IF k % 2 = 1 THEN inner[k] = "1" ELSE inner[k] = ","

\* The lines of json.Indent(part, "", "  ") for such an array: "[]" on one
\* line, otherwise "[", one indented line per element (all but the last
\* with the comma) and "]".
IndentedJSON(part) ==
    LET inner == SubSeq(part, 2, Len(part) - 1)
        n == (Len(inner) + 1) \div 2
    IN  IF inner = <<>> THEN <<part>>
        ELSE <<<<"[">>>>
             \o [k \in 1..n |-> <<" ", " ", "1">> \o (IF k < n THEN <<",">> ELSE <<>>)]
             \o <<<<"]">>>>

\* formatJSON.  pythonToJSON changes nothing in a text without escape
\* sequences, quotes, True, False and None, so a part json.Indent rejects is
\* rejected again.
formatJSON(line) ==
    LET jsonStart == findJSONStart(line)
        found == findJSONEnd(line, jsonStart)
        jsonEnd == IF found = -1 THEN Len(line) - 1 ELSE found
        prefix == SubSeq(line, 1, jsonStart)
        jsonPart == SubSeq(line, jsonStart + 1, jsonEnd + 1)
        suffix == SubSeq(line, jsonEnd + 2, Len(line))
        jsonLines == IndentedJSON(jsonPart)
    IN  IF jsonStart = -1 THEN <<line>>
        ELSE IF ~ValidJSON(jsonPart) THEN <<line>>
        ELSE (IF prefix # <<>> THEN <<prefix>> ELSE <<>>)
             \o [i \in 1..Len(jsonLines) |->
                    IF i = Len(jsonLines) THEN jsonLines[i] \o suffix ELSE jsonLines[i]]

ToLowerChar(c) == CASE c = "A" -> "a" [] c = "B" -> "b" [] OTHER -> c

ToLower(s) == [i \in 1..Len(s) |-> ToLowerChar(s[i])]

\* strings.Contains
Contains(s, sub) ==
    \E k \in 0..(Len(s) - Len(sub)) : \A i \in 1..Len(sub) : s[k + i] = sub[i]

\* regexp.Compile on the patterns of the model: letters, "." and "(".  An
\* opening parenthesis that is never closed is a syntax error.
RegexCompiles(pattern) == \A i \in 1..Len(pattern) : pattern[i] # "("

\* Regexp.MatchString: an unanchored match, "." matches any character.
RegexMatch(pattern, ignoreCase, s) ==
    \E k \in 0..(Len(s) - Len(pattern)) :
        \A i \in 1..Len(pattern) :
            \/ pattern[i] = "."
            \/ IF ignoreCase
               THEN ToLowerChar(pattern[i]) = ToLowerChar(s[k + i])
               ELSE pattern[i] = s[k + i]

\* The matcher closure HandleFilter and HandleFilterAppend build.
Matcher(query, isRegex, ignoreCase, line, has) ==
    LET text == IF has THEN stripANSI(line) ELSE line
    IN  IF isRegex THEN RegexMatch(query, ignoreCase, text)
        ELSE IF ignoreCase THEN Contains(ToLower(text), ToLower(query))
        ELSE Contains(text, query)

----------------------------------------------------------------------------
(* Sequences *)

Range(s) == {s[i] : i \in 1..Len(s)}

CountIn(s, x) == Cardinality({k \in 1..Len(s) : s[k] = x})

----------------------------------------------------------------------------
(* The filter goroutine of HandleFilter / HandleFilterAppend.              *)
(*                                                                         *)
(* A task record holds what the goroutine captured (kind, src: the lines   *)
(* it filters, srcANSI, cur: the snapshot of the viewer the command was    *)
(* issued on, the query and its flags, currentTopLine, currentLine) and    *)
(* its locals: pc, the workers that have not sent yet (pending), the       *)
(* buffered channel resultChan (chan), the chunk indices stored in results *)
(* (got), foundMatch, matchesBefore and allIndices.  A result is named by  *)
(* its chunk index: its content is a function of the index (ChunkIndices). *)
(* inOrder records whether the results came in the order of the chunks.    *)
(* resultChan is the set of results sent and not yet received: the loop    *)
(* receives them in the order sent and the workers send in any order, so   *)
(* any buffered result can be the one received next.                       *)

NoTask == [pc |-> "none"]

NumWorkersOf(totalLines) == IF totalLines < numWorkers THEN 1 ELSE numWorkers

ChunkSizeOf(totalLines) ==
    (totalLines + NumWorkersOf(totalLines) - 1) \div NumWorkersOf(totalLines)

\* The workers the start loop launches: it stops at the first w whose start
\* is not below totalLines, and start grows with w.
StartedWorkers(totalLines) ==
    {w \in 0..(NumWorkersOf(totalLines) - 1) : w * ChunkSizeOf(totalLines) < totalLines}

ChunkStart(totalLines, w) == w * ChunkSizeOf(totalLines)

\* A wrong variant of ChunkEnd: every chunk loses its last line.
ChunkEndShort(totalLines, w) ==
    Min(ChunkStart(totalLines, w) + ChunkSizeOf(totalLines) - 1, totalLines)

ChunkEnd(totalLines, w) ==
    Min(ChunkStart(totalLines, w) + ChunkSizeOf(totalLines), totalLines)

\* A marking that does not use the parent's copies up (for comparison).
RECURSIVE MarkAnyCopy(_, _, _)
MarkAnyCopy(originalLines, i, tempCounts) ==
    IF i > Len(originalLines) THEN <<>>
    ELSE <<tempCounts[originalLines[i]] > 0>> \o MarkAnyCopy(originalLines, i + 1, tempCounts)

\* inCurrent: walk the root lines, consuming the counts of the current lines.
RECURSIVE MarkInCurrent(_, _, _)
MarkInCurrent(originalLines, i, tempCounts) ==
    IF i > Len(originalLines) THEN <<>>
    ELSE IF tempCounts[originalLines[i]] > 0
         THEN <<TRUE>> \o MarkInCurrent(originalLines, i + 1,
                              [tempCounts EXCEPT ![originalLines[i]] = @ - 1])
         ELSE <<FALSE>> \o MarkInCurrent(originalLines, i + 1, tempCounts)

InCurrent(originalLines, currentLines) ==
    MarkInCurrent(originalLines, 1,
        [x \in Range(originalLines) \cup Range(currentLines) |-> CountIn(currentLines, x)])

\* Whether a worker retains line i (0-based) of the lines it filters.
Retains(t, i) ==
    LET has == i < Len(t.srcANSI) /\ t.srcANSI[i + 1]
        matches == Matcher(t.query, t.isRegex, t.ignoreCase, t.src[i + 1], has)
    IN  IF t.kind = "append"
        THEN InCurrent(t.src, t.cur)[i + 1] \/ matches
        ELSE matches = t.keep

\* The indices in [start, stop) a worker retains, ascending.
RECURSIVE RetainedFrom(_, _, _)
RetainedFrom(t, start, stop) ==
    IF start >= stop THEN <<>>
    ELSE (IF Retains(t, start) THEN <<start>> ELSE <<>>) \o RetainedFrom(t, start + 1, stop)

\* chunkIndices of the result worker w sends.
ChunkIndices(t, w) ==
    RetainedFrom(t, ChunkStart(Len(t.src), w), ChunkEnd(Len(t.src), w))

\* The merge loop's iteration order: results[0], results[1], ... where an
\* entry never received is the zero value (no lines).
RECURSIVE MergeFrom(_, _)
MergeFrom(t, chunkIdx) ==
    IF chunkIdx >= NumWorkersOf(Len(t.src)) THEN <<>>
    ELSE (IF chunkIdx \in t.got THEN ChunkIndices(t, chunkIdx) ELSE <<>>)
         \o MergeFrom(t, chunkIdx + 1)

MergeOrder(t) == MergeFrom(t, 0)

NewTask(kind, keep, src, srcANSI, cur, query, isRegex, ignoreCase, currentTopLine, currentLine) ==
    [pc |-> "collect", kind |-> kind, keep |-> keep, src |-> src, srcANSI |-> srcANSI,
     cur |-> cur, query |-> query, isRegex |-> isRegex, ignoreCase |-> ignoreCase,
     currentTopLine |-> currentTopLine, currentLine |-> currentLine,
     pending |-> StartedWorkers(Len(src)), chan |-> {}, got |-> {},
     foundMatch |-> FALSE, matchesBefore |-> 0, allIndices |-> <<>>, seed |-> FALSE,
     inOrder |-> TRUE]

----------------------------------------------------------------------------
(* Viewer, ViewerStack, SearchState *)

\* expandedCacheKey: fmt.Sprintf("%v:%v:%d", wordWrap, jsonPretty, width),
\* kept as the three values; NoCacheKey is the empty string of a viewer that
\* has no cache yet.
CacheKey(wordWrap, jsonPretty, width) ==
    [wordWrap |-> wordWrap, jsonPretty |-> jsonPretty, width |-> width]

NoCacheKey == CacheKey(FALSE, FALSE, -1)

NewViewer(task) ==
    [lines |-> <<>>, hasANSI |-> <<>>, originIndices |-> <<>>, loading |-> TRUE,
     topLine |-> 0, topLineOffset |-> 0, follow |-> FALSE, task |-> task,
     wordWrap |-> FALSE, jsonPretty |-> FALSE, width |-> 0, height |-> 0,
     expandedCache |-> {}, expandedCacheKey |-> NoCacheKey]

LineCount(v) == Len(v.lines)

GetLine(v, idx) == IF idx < 0 \/ idx >= Len(v.lines) THEN <<>> ELSE v.lines[idx + 1]

NewViewerStack(initial) == <<initial>>

Current(s) == s[Len(s)]

Push(s, v) == Append(s, v)

\* Variants of Pop and Reset that are wrong on purpose.  The claims about
\* the stack are run against them to see that they tell the difference.
PopBottom(s) ==
    IF Len(s) <= 1 THEN [viewers |-> s, changed |-> FALSE]
    ELSE [viewers |-> SubSeq(s, 2, Len(s)), changed |-> TRUE]

ResetKeepTop(s) ==
    IF Len(s) <= 1 THEN [viewers |-> s, changed |-> FALSE]
    ELSE [viewers |-> SubSeq(s, Len(s), Len(s)), changed |-> TRUE]

ResetOneLevel(s) ==
    IF Len(s) <= 1 THEN [viewers |-> s, changed |-> FALSE]
    ELSE [viewers |-> SubSeq(s, 1, Len(s) - 1), changed |-> TRUE]

\* ViewerStack.Pop: the new stack and the flag it returns.
Pop(s) ==
    IF Len(s) <= 1 THEN [viewers |-> s, changed |-> FALSE]
    ELSE [viewers |-> SubSeq(s, 1, Len(s) - 1), changed |-> TRUE]

\* ViewerStack.Reset
Reset(s) ==
    IF Len(s) <= 1 THEN [viewers |-> s, changed |-> FALSE]
    ELSE [viewers |-> SubSeq(s, 1, 1), changed |-> TRUE]

\* &SearchState{}: the zero value NewApp starts with.
ZeroSearch ==
    [query |-> <<>>, isRegex |-> FALSE, ignoreCase |-> FALSE, matches |-> <<>>,
     current |-> 0, backward |-> FALSE]

\* A wrong variant of Clear: it forgets the query but keeps the matches.
ClearQueryOnly(s) == [s EXCEPT !.query = <<>>, !.current = -1]

\* SearchState.Clear
Clear(s) ==
    [query |-> <<>>, isRegex |-> FALSE, ignoreCase |-> FALSE, matches |-> <<>>,
     current |-> -1, backward |-> FALSE]

\* sort.Search(n, f) for f(i) == origin[i] >= target: a binary search.
RECURSIVE SearchFrom(_, _, _, _)
SearchFrom(originIndices, target, i, j) ==
    IF i >= j THEN i
    ELSE LET h == (i + j) \div 2
         IN  IF originIndices[h + 1] >= target
             THEN SearchFrom(originIndices, target, i, h)
             ELSE SearchFrom(originIndices, target, h + 1, j)

SortSearch(originIndices, target) == SearchFrom(originIndices, target, 0, Len(originIndices))

----------------------------------------------------------------------------
(* History: the entries in memory, the position of the prompt's up/down    *)
(* navigation (index, tempInput) and the entries of the history file       *)
(* (saved).  An entry is a string: a sequence of characters.  The prompts  *)
(* add what is entered to the history; the history gives nothing back but  *)
(* what the user may type, which the model draws freely, so the runs about *)
(* the viewer stack leave it alone and the runs about the history call its *)
(* methods as the tests do.                                                *)

\* A wrong variant of encodeHistoryEntry: an empty query gets no separator.
encodeNoBarWhenEmpty(query, isRegex, ignoreCase) ==
    <<IF isRegex THEN "r" ELSE "-", IF ignoreCase THEN "i" ELSE "-">>
        \o (IF query = <<>> THEN <<>> ELSE <<"|">> \o query)

\* encodeHistoryEntry: "RI|query"
encodeHistoryEntry(query, isRegex, ignoreCase) ==
    <<IF isRegex THEN "r" ELSE "-", IF ignoreCase THEN "i" ELSE "-", "|">> \o query

\* decodeHistoryEntry: <<query, isRegex, ignoreCase>>
decodeHistoryEntry(entry) ==
    IF Len(entry) >= 3 /\ entry[3] = "|"
    THEN <<SubSeq(entry, 4, Len(entry)), entry[1] = "r", entry[2] = "i">>
    ELSE <<entry, FALSE, FALSE>>

\* NewHistory: the entries are the non-empty lines of the history file.
NewHistory(fileLines) ==
    [entries |-> fileLines, index |-> -1, tempInput |-> <<>>, saved |-> fileLines]

\* History.save: write the last maxHistoryEntries entries to the file.
save(h) ==
    LET start == IF Len(h.entries) > maxHistoryEntries
                 THEN Len(h.entries) - maxHistoryEntries ELSE 0
    IN  [h EXCEPT !.saved = SubSeq(h.entries, start + 1, Len(h.entries))]

\* History.Add
Add(h, entry) ==
    IF entry = <<>> THEN h
    ELSE IF Len(h.entries) > 0 /\ h.entries[Len(h.entries)] = entry THEN h
    ELSE save([h EXCEPT !.entries = Append(@, entry)])

\* History.AddWithModifiers
AddWithModifiers(h, query, isRegex, ignoreCase) ==
    IF query = <<>> THEN h
    ELSE LET entry == encodeHistoryEntry(query, isRegex, ignoreCase)
         IN  IF Len(h.entries) > 0 /\ h.entries[Len(h.entries)] = entry THEN h
             ELSE save([h EXCEPT !.entries = Append(@, entry)])

\* History.Reset
HistoryReset(h) == [h EXCEPT !.index = -1, !.tempInput = <<>>]

\* History.UpWithModifiers: the history after the call and what it returns.
UpWithModifiers(h, currentInput, currentRegex, currentIgnoreCase) ==
    IF Len(h.entries) = 0
    THEN [h |-> h, out |-> <<currentInput, currentRegex, currentIgnoreCase>>]
    ELSE LET g == IF h.index = -1
                  THEN [h EXCEPT !.tempInput = encodeHistoryEntry(currentInput, currentRegex,
                                                                  currentIgnoreCase),
                                 !.index = Len(h.entries) - 1]
                  ELSE IF h.index > 0 THEN [h EXCEPT !.index = @ - 1]
                  ELSE h
         IN  [h |-> g, out |-> decodeHistoryEntry(g.entries[g.index + 1])]

\* A Down that stays on the newest entry (for comparison).
DownStopsAtNewest(h, currentInput, currentRegex, currentIgnoreCase) ==
    IF h.index = -1
    THEN [h |-> h, out |-> <<currentInput, currentRegex, currentIgnoreCase>>]
    ELSE IF h.index + 1 >= Len(h.entries)
    THEN [h |-> h, out |-> decodeHistoryEntry(h.entries[h.index + 1])]
    ELSE [h |-> [h EXCEPT !.index = @ + 1], out |-> decodeHistoryEntry(h.entries[h.index + 2])]

\* History.DownWithModifiers
DownWithModifiers(h, currentInput, currentRegex, currentIgnoreCase) ==
    IF h.index = -1
    THEN [h |-> h, out |-> <<currentInput, currentRegex, currentIgnoreCase>>]
    ELSE IF h.index + 1 >= Len(h.entries)
    THEN [h |-> [h EXCEPT !.index = -1], out |-> decodeHistoryEntry(h.tempInput)]
    ELSE [h |-> [h EXCEPT !.index = @ + 1], out |-> decodeHistoryEntry(h.entries[h.index + 2])]

----------------------------------------------------------------------------
(* The event loop.  A key is dispatched by run(): ClearMessage, the command,*)
(* Draw.  A command that prompts blocks the loop inside the prompt until   *)
(* Enter or Esc; the background goroutines keep running meanwhile.         *)

\* No multi-file merge: the program was started on one file.
NoMerger == [pc |-> "none"]

\* ExitVisualMode: visual mode is off.
NoVisual == [visualMode |-> FALSE, visualStart |-> 0, visualCursor |-> 0]

NoPrompt == [kind |-> "none", topLine |-> 0, line |-> <<>>]

Running == last.op # "panic"

Idle == Running /\ prompt.kind = "none"

\* Draw traces the top line through the origin indices of every level for the
\* status bar, unless a status message is showing.  Indexing a non-empty
\* originIndices with a negative line panics.
RECURSIVE TracePanics(_, _, _)
TracePanics(vs, i, line) ==
    IF i < 1 THEN FALSE
    ELSE LET v == vs[i + 1]
         IN  IF Len(v.originIndices) > 0 /\ line < Len(v.originIndices)
             THEN line < 0 \/ TracePanics(vs, i - 1, v.originIndices[line + 1])
             ELSE TracePanics(vs, i - 1, line)

\* origLine of Draw: the top line traced through the origin indices of the
\* levels i, i - 1, ..., 1 (0-based), for a line that is not negative.
RECURSIVE TraceOrigin(_, _, _)
TraceOrigin(vs, i, line) ==
    IF i < 1 THEN line
    ELSE LET v == vs[i + 1]
         IN  IF Len(v.originIndices) > 0 /\ line < Len(v.originIndices)
             THEN TraceOrigin(vs, i - 1, v.originIndices[line + 1])
             ELSE TraceOrigin(vs, i - 1, line)

\* The original line number the status bar shows.
origLine(vs) == TraceOrigin(vs, Len(vs) - 1, Current(vs).topLine)

DrawPanics(vs, msg) == msg = "" /\ TracePanics(vs, Len(vs) - 1, Current(vs).topLine)

\* The record of a stack command: what it was, the flag it computed, and the
\* stack size and whether a search had matches when it began.
Step(op, changed) ==
    [op |-> op, changed |-> changed, depth |-> Len(viewers),
     searched |-> search.matches # <<>>]

\* The record of a call of the search state: what was called and the line
\* index it returned.
Found(op, ret) ==
    [op |-> op, changed |-> ret >= 0, depth |-> Len(viewers),
     searched |-> search.matches # <<>>, ret |-> ret]

\* The record of an 'n' or 'N' that had matches to go through: the line it
\* went to, -1 if none, and which of the two keys it was.
NavStep(ret, reverse) ==
    [op |-> "nav", changed |-> ret >= 0, depth |-> Len(viewers),
     searched |-> search.matches # <<>>, ret |-> ret, reverse |-> reverse]

\* Steps no claim needs to tell apart.
Other == [op |-> "other", changed |-> FALSE, depth |-> 0, searched |-> FALSE]

\* The program has crashed.
Panic == [op |-> "panic", changed |-> FALSE, depth |-> 0, searched |-> FALSE]

\* The record of a step of the event loop that ends with Draw.
AfterDraw(step, vs, msg) == IF DrawPanics(vs, msg) THEN Panic ELSE step

Background == Other

SetCurrent(vs, v) == [vs EXCEPT ![Len(vs)] = v]

Init ==
    /\ file \in Files
    /\ viewers = NewViewerStack(NewViewer(NoTask))
    /\ search = ZeroSearch
    /\ statusMessage = ""
    /\ prompt = NoPrompt
    /\ loader = [pc |-> "reading", read |-> 0]
    /\ tailers = <<>>
    /\ history = NewHistory(<<>>)
    /\ merger = NoMerger
    /\ visual = NoVisual
    /\ last = Other

----------------------------------------------------------------------------
(* loadFromReader: append the lines read in batches of batchSize under the *)
(* viewer's lock, then the rest (the scanner is at the end of the file),   *)
(* then clear loading.  The goroutine of NewViewer then starts a tailer if *)
(* follow is on.                                                           *)

NewTailer == [pc |-> "check", currentLines |-> 0, newLines |-> <<>>, atBottom |-> FALSE]

LoaderAppend ==
    /\ Running
    /\ loader.pc = "reading"
    /\ loader.read < Len(file)
    /\ LET n == Min(batchSize, Len(file) - loader.read)
           batch == SubSeq(file, loader.read + 1, loader.read + n)
           root == viewers[1]
       IN  /\ viewers' = [viewers EXCEPT ![1] =
                   [root EXCEPT !.lines = @ \o batch,
                                !.hasANSI = @ \o [k \in 1..n |-> lineHasANSI(batch[k])]]]
           /\ loader' = [pc |-> IF n < batchSize THEN "eof" ELSE "reading",
                         read |-> loader.read + n]
    /\ last' = Background
    /\ UNCHANGED <<file, search, statusMessage, prompt, tailers, history, merger, visual>>

\* A loader that clears the loading flag before the source is exhausted (for
\* comparison).
LoaderFinishEarly ==
    /\ Running
    /\ loader.pc \in {"reading", "eof"}
    /\ viewers' = [viewers EXCEPT ![1] = [@ EXCEPT !.loading = FALSE]]
    /\ loader' = [loader EXCEPT !.pc = "done"]
    /\ tailers' = IF viewers[1].follow THEN Append(tailers, NewTailer) ELSE tailers
    /\ last' = Background
    /\ UNCHANGED <<file, search, statusMessage, prompt, history, merger, visual>>

LoaderFinish ==
    /\ Running
    /\ \/ loader.pc = "eof"
       \/ loader.pc = "reading" /\ loader.read = Len(file)
    /\ viewers' = [viewers EXCEPT ![1] = [@ EXCEPT !.loading = FALSE]]
    /\ loader' = [loader EXCEPT !.pc = "done"]
    /\ tailers' = IF viewers[1].follow THEN Append(tailers, NewTailer) ELSE tailers
    /\ last' = Background
    /\ UNCHANGED <<file, search, statusMessage, prompt, history, merger, visual>>

----------------------------------------------------------------------------
(* Navigation keys *)

\* Rows counted with the division rounded down (for comparison).
RECURSIVE WrappedRowsFloor(_, _, _)
WrappedRowsFloor(lines, k, width) ==
    IF k > Len(lines) THEN 0
    ELSE LET cells == parseANSI(lines[k])
         IN  (IF Len(cells) = 0 THEN 1 ELSE Len(cells) \div width)
             + WrappedRowsFloor(lines, k + 1, width)

\* The rows getExpandedLineCount computes for a line of the buffer.
RECURSIVE WrappedRows(_, _, _)
WrappedRows(lines, k, width) ==
    IF k > Len(lines) THEN 0
    ELSE LET cells == parseANSI(lines[k])
         IN  (IF Len(cells) = 0 THEN 1 ELSE (Len(cells) + width - 1) \div width)
             + WrappedRows(lines, k + 1, width)

ExpandedRows(v, lineIdx) ==
    LET line == GetLine(v, lineIdx)
        lines == IF v.jsonPretty /\ isJSON(line) THEN formatJSON(line) ELSE <<line>>
        totalRows == IF ~v.wordWrap THEN Len(lines) ELSE WrappedRows(lines, 1, v.width)
    IN  IF totalRows = 0 THEN 1 ELSE totalRows

\* A getExpandedLineCount that never empties its cache (for comparison).
getExpandedLineCountKeepingCache(v, lineIdx) ==
    IF lineIdx < 0 \/ lineIdx >= LineCount(v) THEN [v |-> v, count |-> 1]
    ELSE IF v.width <= 0 THEN [v |-> v, count |-> 1]
    ELSE LET hits == {e \in v.expandedCache : e[1] = lineIdx}
         IN  IF hits # {}
             THEN [v |-> v, count |-> (CHOOSE e \in hits : TRUE)[2]]
             ELSE LET totalRows == ExpandedRows(v, lineIdx)
                  IN  [v |-> [v EXCEPT !.expandedCache = @ \cup {<<lineIdx, totalRows>>}],
                       count |-> totalRows]

\* getExpandedLineCount: the viewer with its cache updated, and the count.
\* The cache is a set of pairs <<lineIdx, rows>>.
getExpandedLineCount(v, lineIdx) ==
    IF lineIdx < 0 \/ lineIdx >= LineCount(v) THEN [v |-> v, count |-> 1]
    ELSE IF v.width <= 0 THEN [v |-> v, count |-> 1]
    ELSE LET cacheKey == CacheKey(v.wordWrap, v.jsonPretty, v.width)
             cache == IF v.expandedCacheKey # cacheKey THEN {} ELSE v.expandedCache
             hits == {e \in cache : e[1] = lineIdx}
         IN  IF hits # {}
             THEN [v |-> [v EXCEPT !.expandedCache = cache, !.expandedCacheKey = cacheKey],
                   count |-> (CHOOSE e \in hits : TRUE)[2]]
             ELSE LET totalRows == ExpandedRows(v, lineIdx)
                  IN  [v |-> [v EXCEPT !.expandedCache = cache \cup {<<lineIdx, totalRows>>},
                                       !.expandedCacheKey = cacheKey],
                       count |-> totalRows]

\* A navigateDown that leaves a line for the next at any row (for
\* comparison).
navigateDownByLine(v) ==
    LET maxTop == Max(LineCount(v) - 1, 0)
    IN  IF v.topLine < maxTop THEN [v EXCEPT !.topLine = @ + 1, !.topLineOffset = 0] ELSE v

navigateDown(v) ==
    LET maxTop == Max(LineCount(v) - 1, 0)
    IN  IF v.wordWrap \/ v.jsonPretty
        THEN LET e == getExpandedLineCount(v, v.topLine)
             IN  IF v.topLineOffset < e.count - 1
                 THEN [e.v EXCEPT !.topLineOffset = @ + 1]
                 ELSE IF v.topLine < maxTop
                 THEN [e.v EXCEPT !.topLine = @ + 1, !.topLineOffset = 0]
                 ELSE e.v
        ELSE IF v.topLine < maxTop THEN [v EXCEPT !.topLine = @ + 1] ELSE v

\* A navigateUp that enters the line above at its first row (for
\* comparison).
navigateUpToFirstRow(v) ==
    IF v.topLineOffset > 0 THEN [v EXCEPT !.topLineOffset = @ - 1]
    ELSE IF v.topLine > 0 THEN [v EXCEPT !.topLine = @ - 1]
    ELSE v

navigateUp(v) ==
    IF v.wordWrap \/ v.jsonPretty
    THEN IF v.topLineOffset > 0 THEN [v EXCEPT !.topLineOffset = @ - 1]
         ELSE IF v.topLine > 0
         THEN LET e == getExpandedLineCount([v EXCEPT !.topLine = @ - 1], v.topLine - 1)
              IN  [e.v EXCEPT !.topLineOffset = e.count - 1]
         ELSE v
    ELSE IF v.topLine > 0 THEN [v EXCEPT !.topLine = @ - 1] ELSE v

\* n calls of navigateDown, of navigateUp.
RECURSIVE DownTimes(_, _)
DownTimes(v, n) == IF n <= 0 THEN v ELSE DownTimes(navigateDown(v), n - 1)

RECURSIVE UpTimes(_, _)
UpTimes(v, n) == IF n <= 0 THEN v ELSE UpTimes(navigateUp(v), n - 1)

\* A pageDown that moves by lines in every mode (for comparison).
pageDownByLines(v) ==
    LET maxTop == Max(LineCount(v) - 1, 0)
    IN  [v EXCEPT !.topLine = Min(v.topLine + v.height, maxTop)]

pageDown(v) ==
    IF v.wordWrap \/ v.jsonPretty
    THEN DownTimes(v, v.height)
    ELSE LET maxTop == Max(LineCount(v) - 1, 0)
         IN  [v EXCEPT !.topLine = Min(v.topLine + v.height, maxTop)]

pageUp(v) ==
    IF v.wordWrap \/ v.jsonPretty
    THEN UpTimes(v, v.height)
    ELSE [v EXCEPT !.topLine = Max(v.topLine - v.height, 0)]

\* resize: one row is kept for the status bar.
resize(v, width, height) == [v EXCEPT !.width = width, !.height = height - 1]

goToStart(v) == [v EXCEPT !.topLine = 0, !.topLineOffset = 0]

goToEnd(v) == [v EXCEPT !.topLineOffset = 0, !.topLine = Max(LineCount(v) - 1, 0)]

KeyNav(moved) ==
    /\ Idle
    /\ viewers' = SetCurrent(viewers, moved)
    /\ statusMessage' = ""
    /\ last' = AfterDraw(Other, viewers', statusMessage')
    /\ UNCHANGED <<file, search, prompt, loader, tailers, history, merger, visual>>

KeyDown == KeyNav(navigateDown(Current(viewers)))

KeyUp == KeyNav(navigateUp(Current(viewers)))

KeyHome == KeyNav(goToStart(Current(viewers)))

KeyEnd == KeyNav(goToEnd(Current(viewers)))

\* An interrupt, a resize or a key bound to nothing: the loop only draws.  A
\* status message is cleared by the key, or by Draw once its 3 seconds are over.
Draw ==
    /\ Idle
    /\ statusMessage' \in {statusMessage, ""}
    /\ last' = AfterDraw(Other, viewers, statusMessage')
    /\ UNCHANGED <<file, viewers, search, prompt, loader, tailers, history, merger, visual>>

----------------------------------------------------------------------------
(* SearchState.Search *)

\* A wrong variant of getPlain: the escape sequences are never stripped.
getPlainRaw(hasANSI, i, line) == line

\* hasANSI is never nil here: HandleSearch passes the viewer's flags.
getPlain(hasANSI, i, line) ==
    IF i < Len(hasANSI) /\ ~hasANSI[i + 1] THEN line ELSE stripANSI(line)

SearchLineMatches(query, isRegex, ignoreCase, plainLine) ==
    IF ~isRegex /\ ~ignoreCase THEN Contains(plainLine, query)
    ELSE IF ~isRegex THEN Contains(ToLower(plainLine), ToLower(query))
    ELSE IF RegexCompiles(query) THEN RegexMatch(query, ignoreCase, plainLine)
    ELSE Contains(plainLine, query)     \* regexp.QuoteMeta(query)

RECURSIVE SearchMatchesFrom(_, _, _, _, _, _)
SearchMatchesFrom(lines, hasANSI, query, isRegex, ignoreCase, i) ==
    IF i >= Len(lines) THEN <<>>
    ELSE (IF SearchLineMatches(query, isRegex, ignoreCase, getPlain(hasANSI, i, lines[i + 1]))
          THEN <<i>> ELSE <<>>)
         \o SearchMatchesFrom(lines, hasANSI, query, isRegex, ignoreCase, i + 1)

\* A wrong variant of Search: the match is chosen as if the search started at
\* the first line (forward) or the last line (backward).
SearchFromTheEdge(lines, hasANSI, query, startLine, backward, isRegex, ignoreCase) ==
    LET matches == SearchMatchesFrom(lines, hasANSI, query, isRegex, ignoreCase, 0)
        hit == IF backward THEN Len(matches) ELSE Min(1, Len(matches))
    IN  [state |-> [query |-> query, isRegex |-> isRegex, ignoreCase |-> ignoreCase,
                    matches |-> matches, current |-> hit - 1, backward |-> backward],
         ret |-> IF hit > 0 THEN matches[hit] ELSE -1]

\* A Search that leaves current at the first match whenever it returns -1
\* (for comparison).
SearchFallsToFirst(lines, hasANSI, query, startLine, backward, isRegex, ignoreCase) ==
    LET matches == SearchMatchesFrom(lines, hasANSI, query, isRegex, ignoreCase, 0)
        atOrBefore == {i \in 1..Len(matches) : matches[i] <= startLine}
        atOrAfter == {i \in 1..Len(matches) : matches[i] >= startLine}
        hit == IF backward
               THEN (IF atOrBefore = {} THEN 0
                     ELSE CHOOSE i \in atOrBefore : \A k \in atOrBefore : k <= i)
               ELSE (IF atOrAfter = {} THEN 0
                     ELSE CHOOSE i \in atOrAfter : \A k \in atOrAfter : i <= k)
        current == IF Len(matches) = 0 THEN -1
                   ELSE IF hit > 0 THEN hit - 1
                   ELSE 0
    IN  [state |-> [query |-> query, isRegex |-> isRegex, ignoreCase |-> ignoreCase,
                    matches |-> matches, current |-> current, backward |-> backward],
         ret |-> IF hit > 0 THEN matches[hit] ELSE -1]

\* A Search that leaves current at -1 whenever it returns -1 (for
\* comparison).
SearchLeavesNoCurrent(lines, hasANSI, query, startLine, backward, isRegex, ignoreCase) ==
    LET matches == SearchMatchesFrom(lines, hasANSI, query, isRegex, ignoreCase, 0)
        atOrBefore == {i \in 1..Len(matches) : matches[i] <= startLine}
        atOrAfter == {i \in 1..Len(matches) : matches[i] >= startLine}
        hit == IF backward
               THEN (IF atOrBefore = {} THEN 0
                     ELSE CHOOSE i \in atOrBefore : \A k \in atOrBefore : k <= i)
               ELSE (IF atOrAfter = {} THEN 0
                     ELSE CHOOSE i \in atOrAfter : \A k \in atOrAfter : i <= k)
    IN  [state |-> [query |-> query, isRegex |-> isRegex, ignoreCase |-> ignoreCase,
                    matches |-> matches, current |-> hit - 1, backward |-> backward],
         ret |-> IF hit > 0 THEN matches[hit] ELSE -1]

\* The search state after Search and the line index it returns.
Search(lines, hasANSI, query, startLine, backward, isRegex, ignoreCase) ==
    LET matches == SearchMatchesFrom(lines, hasANSI, query, isRegex, ignoreCase, 0)
        atOrBefore == {i \in 1..Len(matches) : matches[i] <= startLine}
        atOrAfter == {i \in 1..Len(matches) : matches[i] >= startLine}
        hit == IF backward
               THEN (IF atOrBefore = {} THEN 0
                     ELSE CHOOSE i \in atOrBefore : \A k \in atOrBefore : k <= i)
               ELSE (IF atOrAfter = {} THEN 0
                     ELSE CHOOSE i \in atOrAfter : \A k \in atOrAfter : i <= k)
        current == IF Len(matches) = 0 THEN -1
                   ELSE IF hit > 0 THEN hit - 1
                   ELSE IF backward THEN 0 ELSE Len(matches) - 1
    IN  [state |-> [query |-> query, isRegex |-> isRegex, ignoreCase |-> ignoreCase,
                    matches |-> matches, current |-> current, backward |-> backward],
         ret |-> IF hit > 0 THEN matches[hit] ELSE -1]

\* SearchState.HasResults
HasResults(s) == Len(s.matches) > 0

\* A wrong variant of SearchState.Next: it wraps around at the last match.
SearchStateNextWraps(s) ==
    IF ~HasResults(s) THEN [state |-> s, ret |-> -1]
    ELSE LET c == IF s.current >= Len(s.matches) - 1 THEN 0 ELSE s.current + 1
         IN  [state |-> [s EXCEPT !.current = c], ret |-> s.matches[c + 1]]

\* SearchState.Next: the search state after the call and the value returned.
SearchStateNext(s) ==
    IF ~HasResults(s) THEN [state |-> s, ret |-> -1]
    ELSE IF s.current >= Len(s.matches) - 1 THEN [state |-> s, ret |-> -1]
    ELSE [state |-> [s EXCEPT !.current = @ + 1], ret |-> s.matches[s.current + 2]]

\* SearchState.Prev
SearchStatePrev(s) ==
    IF ~HasResults(s) THEN [state |-> s, ret |-> -1]
    ELSE IF s.current <= 0 THEN [state |-> s, ret |-> -1]
    ELSE [state |-> [s EXCEPT !.current = @ - 1], ret |-> s.matches[s.current]]

----------------------------------------------------------------------------
(* Commands that prompt: '&', '-', '+', '/', '?' *)

\* HandleFilter reads current.topLine, HandleFilterAppend the current top
\* line's text, before the prompt opens.
KeyFilter(maxDepth, kind) ==
    /\ Idle
    /\ Len(viewers) < maxDepth
    /\ prompt' = [kind |-> kind,
                  topLine |-> IF kind = "+" THEN 0 ELSE Current(viewers).topLine,
                  line |-> IF kind = "+"
                           THEN GetLine(Current(viewers), Current(viewers).topLine)
                           ELSE <<>>]
    /\ statusMessage' = ""
    /\ last' = Other
    /\ UNCHANGED <<file, viewers, search, loader, tailers, history, merger, visual>>

KeySearch(backward) ==
    /\ Idle
    /\ prompt' = [kind |-> IF backward THEN "?" ELSE "/", topLine |-> 0, line |-> <<>>]
    /\ statusMessage' = ""
    /\ last' = Other
    /\ UNCHANGED <<file, viewers, search, loader, tailers, history, merger, visual>>

\* Esc in a prompt: ok is false and the command does nothing.
PromptEsc ==
    /\ Running
    /\ prompt.kind # "none"
    /\ prompt' = NoPrompt
    /\ last' = AfterDraw(Other, viewers, statusMessage)
    /\ UNCHANGED <<file, viewers, search, statusMessage, loader, tailers, history, merger, visual>>

\* A wrong variant of ShowTempMessage: nothing is shown.
ShowNothing(msg) == ""

\* App.ShowTempMessage: the message the status bar shows for 3 seconds.
ShowTempMessage(msg) == msg

\* regexp.Compile of the filter's pattern succeeds ("(?i)" is always valid).
FilterCompiles(query, isRegex) == ~isRegex \/ RegexCompiles(query)

\* The viewer HandleFilter (keep, exclude) or HandleFilterAppend pushes.
FilterViewer(kind, vs, query, isRegex, ignoreCase, currentTopLine, currentLine) ==
    LET current == Current(vs)
        original == vs[1]
    IN  IF kind = "+"
        THEN NewViewer(NewTask("append", TRUE, original.lines, original.hasANSI,
                               current.lines, query, isRegex, ignoreCase, 0, currentLine))
        ELSE NewViewer(NewTask(IF kind = "&" THEN "keep" ELSE "exclude", kind = "&",
                               current.lines, current.hasANSI, current.lines,
                               query, isRegex, ignoreCase, currentTopLine, <<>>))

\* Enter in the prompt of '&', '-' or '+'.
FilterEnter(query, isRegex, ignoreCase) ==
    /\ Running
    /\ prompt.kind \in {"&", "-", "+"}
    /\ prompt' = NoPrompt
    /\ IF query = <<>>
       THEN /\ UNCHANGED <<viewers, search, statusMessage>>
            /\ last' = AfterDraw(Other, viewers, statusMessage)
       ELSE IF ~FilterCompiles(query, isRegex)
       THEN /\ statusMessage' = ShowTempMessage("Invalid regex")
            /\ UNCHANGED <<viewers, search>>
            /\ last' = AfterDraw(Step("filter_invalid", FALSE), viewers, statusMessage')
       ELSE /\ viewers' = Push(viewers, FilterViewer(prompt.kind, viewers, query, isRegex,
                                                     ignoreCase, prompt.topLine, prompt.line))
            /\ search' = Clear(search)
            /\ UNCHANGED statusMessage
            /\ last' = AfterDraw(Step("filter", TRUE), viewers', statusMessage)
    /\ UNCHANGED <<file, loader, tailers, history, merger, visual>>

\* Enter in the prompt of '/' or '?': HandleSearch.
SearchEnter(query, isRegex, ignoreCase) ==
    /\ Running
    /\ prompt.kind \in {"/", "?"}
    /\ prompt' = NoPrompt
    /\ IF query = <<>>
       THEN /\ UNCHANGED <<viewers, search, statusMessage>>
            /\ last' = AfterDraw(Other, viewers, statusMessage)
       ELSE LET current == Current(viewers)
                r == Search(current.lines, current.hasANSI, query, current.topLine,
                            prompt.kind = "?", isRegex, ignoreCase)
            IN  /\ search' = r.state
                /\ viewers' = IF r.ret >= 0
                              THEN SetCurrent(viewers, [current EXCEPT !.topLine = r.ret])
                              ELSE viewers
                /\ statusMessage' = IF r.ret < 0 /\ Len(r.state.matches) > 0
                                    THEN ShowTempMessage("no more matches")
                                    ELSE statusMessage
                /\ last' = AfterDraw(Found("search", r.ret), viewers', statusMessage')
    /\ UNCHANGED <<file, loader, tailers, history, merger, visual>>

\* A wrong variant of NavMatch: past the last match it wraps around to the
\* first, and before the first to the last.
NavMatchWraps(matches, topLine, goingUp) ==
    LET before == {i \in 1..Len(matches) : matches[i] < topLine}
        after == {i \in 1..Len(matches) : matches[i] > topLine}
    IN  IF goingUp
        THEN (IF before = {} THEN Len(matches)
              ELSE CHOOSE i \in before : \A k \in before : k <= i)
        ELSE (IF after = {} THEN Min(1, Len(matches))
              ELSE CHOOSE i \in after : \A k \in after : i <= k)

\* The loops of HandleSearchNav: the position (1-based) in matches of the
\* last match before topLine (goingUp) or of the first match after topLine,
\* 0 when there is none.
NavMatch(matches, topLine, goingUp) ==
    LET before == {i \in 1..Len(matches) : matches[i] < topLine}
        after == {i \in 1..Len(matches) : matches[i] > topLine}
    IN  IF goingUp
        THEN (IF before = {} THEN 0 ELSE CHOOSE i \in before : \A k \in before : k <= i)
        ELSE (IF after = {} THEN 0 ELSE CHOOSE i \in after : \A k \in after : i <= k)

\* 'n' (reverse = FALSE) and 'N' (reverse = TRUE): HandleSearchNav.
KeySearchNav(reverse) ==
    /\ Idle
    /\ IF ~HasResults(search)
       THEN /\ statusMessage' = ""
            /\ UNCHANGED <<viewers, search>>
            /\ last' = AfterDraw(Other, viewers, statusMessage')
       ELSE LET current == Current(viewers)
                goingUp == search.backward # reverse
                found == NavMatch(search.matches, current.topLine, goingUp)
            IN  /\ viewers' = IF found > 0
                              THEN SetCurrent(viewers,
                                       [current EXCEPT !.topLine = search.matches[found]])
                              ELSE viewers
                /\ search' = IF found > 0 THEN [search EXCEPT !.current = found - 1]
                             ELSE search
                /\ statusMessage' = IF found > 0 THEN ""
                                    ELSE ShowTempMessage(IF goingUp THEN "BOF" ELSE "EOF")
                /\ last' = AfterDraw(NavStep(IF found > 0 THEN search.matches[found] ELSE -1,
                                             reverse),
                                     viewers', statusMessage')
    /\ UNCHANGED <<file, prompt, loader, tailers, history, merger, visual>>

----------------------------------------------------------------------------
(* HandleStackNav: 'U' (reset = FALSE) and '=' (reset = TRUE) *)

\* targetLine before the stack changes: the current viewer's origin index at
\* topLine, or topLine itself when the viewer has no origin index there.
NavTarget(current) ==
    IF Len(current.originIndices) > 0 /\ current.topLine < Len(current.originIndices)
    THEN [panic |-> current.topLine < 0,
          line |-> IF current.topLine < 0 THEN 0
                   ELSE current.originIndices[current.topLine + 1]]
    ELSE [panic |-> FALSE, line |-> current.topLine]

\* The reset loop: for i := len(viewers)-1; i >= 1; i-- (i is 0-based).
RECURSIVE TraceDown(_, _, _)
TraceDown(vs, i, target) ==
    IF i < 1 \/ target.panic THEN target
    ELSE LET v == vs[i + 1]
         IN  IF Len(v.originIndices) > 0 /\ target.line < Len(v.originIndices)
             THEN TraceDown(vs, i - 1,
                      [panic |-> target.line < 0,
                       line |-> IF target.line < 0 THEN 0
                                ELSE v.originIndices[target.line + 1]])
             ELSE TraceDown(vs, i - 1, target)

\* The viewer the stack shows after the pop or reset, positioned on targetLine.
Reposition(newCurrent, targetLine) ==
    LET n == Len(newCurrent.originIndices)
        idx == SortSearch(newCurrent.originIndices, targetLine)
        lineCount == LineCount(newCurrent)
    IN  [newCurrent EXCEPT
            !.topLineOffset = 0,
            !.topLine = IF n > 0
                        THEN (IF idx < n THEN idx ELSE n - 1)
                        ELSE (IF targetLine >= lineCount THEN lineCount - 1
                              ELSE targetLine)]

HandleStackNav(reset) ==
    /\ Idle
    /\ LET first == NavTarget(Current(viewers))
           target == IF reset /\ Len(viewers) > 1
                     THEN TraceDown(viewers, Len(viewers) - 1, first)
                     ELSE first
           r == IF reset THEN Reset(viewers) ELSE Pop(viewers)
       IN  IF target.panic
           THEN /\ last' = Panic
                /\ UNCHANGED <<viewers, search>>
           ELSE /\ viewers' = IF r.changed
                              THEN SetCurrent(r.viewers,
                                       Reposition(Current(r.viewers), target.line))
                              ELSE r.viewers
                /\ search' = Clear(search)
                /\ last' = AfterDraw(Step(IF reset THEN "reset" ELSE "pop", r.changed),
                                     viewers', "")
    /\ statusMessage' = ""
    /\ UNCHANGED <<file, prompt, loader, tailers, history, merger, visual>>

----------------------------------------------------------------------------
(* The filter goroutine of the viewer at stack position i (1-based, i > 1). *)
(* A goroutine whose viewer was popped runs on, but the viewer it writes   *)
(* to is no longer reachable from the App: it leaves the model with it.    *)

SetTask(i, t) ==
    /\ viewers' = [viewers EXCEPT ![i] = [@ EXCEPT !.task = t]]
    /\ last' = Background
    /\ UNCHANGED <<file, search, statusMessage, prompt, loader, tailers, history, merger, visual>>

\* A chunk worker finishes its chunk and sends the result (the channel has
\* room for numWorkers results, so the send never blocks).
WorkerSend(i, w) ==
    LET t == viewers[i].task
    IN  /\ Running
        /\ i <= Len(viewers)
        /\ t.pc = "collect"
        /\ w \in t.pending
        /\ SetTask(i, [t EXCEPT !.pending = @ \ {w}, !.chan = @ \cup {w}])

\* The collect loop receives one result; after NumWorkersOf(totalLines)
\* results it closes the channel and goes on to the merge.
Collect(i) ==
    LET t == viewers[i].task
    IN  /\ Running
        /\ i <= Len(viewers)
        /\ t.pc = "collect"
        /\ Cardinality(t.got) < NumWorkersOf(Len(t.src))
        /\ \E c \in t.chan :
           LET got == t.got \cup {c}
           IN  SetTask(i, [t EXCEPT !.got = got, !.chan = @ \ {c},
                              !.inOrder = @ /\ c = Cardinality(t.got),
                              !.pc = IF Cardinality(got) < NumWorkersOf(Len(t.src))
                                     THEN "collect" ELSE "merge"])

\* One iteration of the merge loop: append the next retained line and its
\* ANSI flag under the lock.  '+' positions topLine under the same lock; '&'
\* and '-' write topLine after the unlock (MergeSeed).
MergeLine(i) ==
    LET v == viewers[i]
        t == v.task
        order == MergeOrder(t)
        k == Len(t.allIndices)
    IN  /\ Running
        /\ i <= Len(viewers)
        /\ t.pc = "merge"
        /\ ~t.seed
        /\ k < Len(order)
        /\ LET origIdx == order[k + 1]
               line == t.src[origIdx + 1]
               has == origIdx < Len(t.srcANSI) /\ t.srcANSI[origIdx + 1]
               found == IF t.kind = "append" THEN line = t.currentLine
                        ELSE origIdx >= t.currentTopLine
               hit == ~t.foundMatch /\ found
           IN  /\ viewers' = [viewers EXCEPT ![i] =
                       [v EXCEPT
                           !.lines = Append(@, line),
                           !.hasANSI = Append(@, has),
                           !.topLine = IF hit /\ t.kind = "append" THEN Len(v.lines) ELSE @,
                           !.task = [t EXCEPT
                               !.allIndices = Append(@, origIdx),
                               !.foundMatch = @ \/ hit,
                               !.matchesBefore = IF t.kind # "append" /\ ~t.foundMatch /\ ~hit
                                                 THEN @ + 1 ELSE @,
                               !.seed = hit /\ t.kind # "append"]]]
               /\ last' = Background
               /\ UNCHANGED <<file, search, statusMessage, prompt, loader, tailers, history, merger, visual>>

\* A seeding that writes the origin index of the line, not its position (for
\* comparison).
MergeSeedOrigin(i) ==
    LET v == viewers[i]
        t == v.task
    IN  /\ Running
        /\ i <= Len(viewers)
        /\ t.pc = "merge"
        /\ t.seed
        /\ viewers' = [viewers EXCEPT ![i] =
                [v EXCEPT !.topLine = t.allIndices[Len(t.allIndices)],
                          !.task = [t EXCEPT !.seed = FALSE]]]
        /\ last' = Background
        /\ UNCHANGED <<file, search, statusMessage, prompt, loader, tailers, history, merger, visual>>

\* newViewer.topLine = matchesBefore, written without the viewer's lock.
MergeSeed(i) ==
    LET v == viewers[i]
        t == v.task
    IN  /\ Running
        /\ i <= Len(viewers)
        /\ t.pc = "merge"
        /\ t.seed
        /\ viewers' = [viewers EXCEPT ![i] =
                [v EXCEPT !.topLine = t.matchesBefore, !.task = [t EXCEPT !.seed = FALSE]]]
        /\ last' = Background
        /\ UNCHANGED <<file, search, statusMessage, prompt, loader, tailers, history, merger, visual>>

\* A goroutine that has returned: nothing of it is left but what it was (the
\* command and the query that made the viewer), the lengths of the snapshot
\* of the viewer it was issued on and of the lines it filtered, and inOrder.
DoneTask(t) ==
    [pc |-> "done", kind |-> t.kind, parentLen |-> Len(t.cur), srcLen |-> Len(t.src),
     inOrder |-> t.inOrder,
     query |-> t.query, isRegex |-> t.isRegex, ignoreCase |-> t.ignoreCase]

\* A wrong variant of TaskFinish: loading is cleared and originIndices is
\* never published.
TaskFinishUnpublished(i) ==
    LET v == viewers[i]
        t == v.task
    IN  /\ Running
        /\ i <= Len(viewers)
        /\ t.pc = "merge"
        /\ ~t.seed
        /\ Len(t.allIndices) = Len(MergeOrder(t))
        /\ viewers' = [viewers EXCEPT ![i] =
                [v EXCEPT !.loading = FALSE, !.task = DoneTask(t)]]
        /\ last' = Background
        /\ UNCHANGED <<file, search, statusMessage, prompt, loader, tailers, history, merger, visual>>

\* The merge loop is over: publish originIndices and clear loading.  The
\* goroutine returns and its locals are gone.
TaskFinish(i) ==
    LET v == viewers[i]
        t == v.task
    IN  /\ Running
        /\ i <= Len(viewers)
        /\ t.pc = "merge"
        /\ ~t.seed
        /\ Len(t.allIndices) = Len(MergeOrder(t))
        /\ viewers' = [viewers EXCEPT ![i] =
                [v EXCEPT !.originIndices = t.allIndices,
                          !.loading = FALSE,
                          !.task = DoneTask(t)]]
        /\ last' = Background
        /\ UNCHANGED <<file, search, statusMessage, prompt, loader, tailers, history, merger, visual>>

\* The goroutine of a viewer just pushed runs to its end: every worker it
\* starts sends, and it receives as many results as it waits for.
Completes(v) ==
    Cardinality(StartedWorkers(Len(v.task.src))) = NumWorkersOf(Len(v.task.src))

\* The viewer a viewer just pushed has become when its goroutine returns, no
\* key having been pressed meanwhile (Completes(v)): the lines of the merge
\* loop in its order, topLine where the loop first found a line at or after
\* currentTopLine ('&', '-') or equal to currentLine ('+').
Completed(v) ==
    LET t == v.task
        order == MergeOrder([t EXCEPT !.got = StartedWorkers(Len(t.src))])
        found == {k \in 1..Len(order) :
                     IF t.kind = "append" THEN t.src[order[k] + 1] = t.currentLine
                     ELSE order[k] >= t.currentTopLine}
    IN  [v EXCEPT
            !.lines = [k \in 1..Len(order) |-> t.src[order[k] + 1]],
            !.hasANSI = [k \in 1..Len(order) |->
                            order[k] < Len(t.srcANSI) /\ t.srcANSI[order[k] + 1]],
            !.originIndices = order,
            !.loading = FALSE,
            !.topLine = IF found = {} THEN v.topLine
                        ELSE (CHOOSE k \in found : \A j \in found : k <= j) - 1,
            !.task = DoneTask(t)]

----------------------------------------------------------------------------
(* Follow mode: ToggleFollow ('F') and the followFile goroutines.          *)

\* The goroutines that may still start a tailer or be one.
LiveTailers == Len(tailers) + (IF loader.pc = "done" THEN 0 ELSE 1)

KeyFollow(maxTailers) ==
    /\ Idle
    /\ LET root == viewers[1]
           on == ~root.follow
       IN  /\ on => LiveTailers < maxTailers
           /\ viewers' = [viewers EXCEPT ![1] =
                   IF on THEN [goToEnd(root) EXCEPT !.follow = TRUE]
                   ELSE [root EXCEPT !.follow = FALSE]]
           /\ tailers' = IF on THEN Append(tailers, NewTailer) ELSE tailers
           /\ statusMessage' = ShowTempMessage(IF on THEN "Follow mode ON"
                                                ELSE "Follow mode OFF")
    /\ last' = AfterDraw(Other, viewers', statusMessage')
    /\ UNCHANGED <<file, search, prompt, loader, history, merger, visual>>

RemoveAt(s, k) == SubSeq(s, 1, k - 1) \o SubSeq(s, k + 1, Len(s))

SetTailer(k, t) ==
    /\ tailers' = [tailers EXCEPT ![k] = t]
    /\ last' = Background
    /\ UNCHANGED <<file, viewers, search, statusMessage, prompt, loader, history, merger, visual>>

\* for v.follow { ... }: the loop test; the goroutine returns when it is false.
TailerCheck(k) ==
    /\ Running
    /\ k <= Len(tailers)
    /\ tailers[k].pc = "check"
    /\ tailers' = IF viewers[1].follow THEN [tailers EXCEPT ![k].pc = "count"]
                  ELSE RemoveAt(tailers, k)
    /\ last' = Background
    /\ UNCHANGED <<file, viewers, search, statusMessage, prompt, loader, history, merger, visual>>

\* currentLines := len(v.lines), under the read lock.
TailerCount(k) ==
    /\ Running
    /\ k <= Len(tailers)
    /\ tailers[k].pc = "count"
    /\ SetTailer(k, [tailers[k] EXCEPT !.pc = "scan",
                                       !.currentLines = Len(viewers[1].lines)])

\* Scan the file and keep the lines after the first currentLines.
TailerScan(k) ==
    LET t == tailers[k]
        newLines == SubSeq(file, t.currentLines + 1, Len(file))
    IN  /\ Running
        /\ k <= Len(tailers)
        /\ t.pc = "scan"
        /\ SetTailer(k, [t EXCEPT !.pc = IF Len(newLines) > 0 THEN "bottom" ELSE "check",
                                  !.newLines = newLines])

\* atBottom, under the read lock.
TailerBottom(k) ==
    LET t == tailers[k]
        root == viewers[1]
    IN  /\ Running
        /\ k <= Len(tailers)
        /\ t.pc = "bottom"
        /\ SetTailer(k, [t EXCEPT !.pc = "append",
                                  !.atBottom = root.topLine >= Len(root.lines) - Height])

\* The append, under the lock.
TailerAppend(k) ==
    LET t == tailers[k]
        root == viewers[1]
        lines == root.lines \o t.newLines
    IN  /\ Running
        /\ k <= Len(tailers)
        /\ t.pc = "append"
        /\ viewers' = [viewers EXCEPT ![1] =
                [root EXCEPT
                    !.lines = lines,
                    !.hasANSI = @ \o [j \in 1..Len(t.newLines) |-> lineHasANSI(t.newLines[j])],
                    !.topLine = IF t.atBottom THEN Max(Len(lines) - Height, 0) ELSE @]]
        /\ tailers' = [tailers EXCEPT ![k] = NewTailer]
        /\ last' = Background
        /\ UNCHANGED <<file, search, statusMessage, prompt, loader, history, merger, visual>>

\* Another process appends a line to the file.
FileAppend ==
    /\ Running
    /\ Len(file) < MaxFileLen
    /\ file' = Append(file, FileLine(Len(file) + 1))
    /\ last' = Background
    /\ UNCHANGED <<viewers, search, statusMessage, prompt, loader, tailers, history, merger, visual>>

----------------------------------------------------------------------------

\* A step of the filter goroutine of the viewer at position i or of one of
\* its workers.
TaskStep(i) ==
    \/ \E w \in 0..(numWorkers - 1) : WorkerSend(i, w)
    \/ Collect(i)
    \/ MergeLine(i)
    \/ MergeSeed(i)
    \/ TaskFinish(i)

Loader == LoaderAppend \/ LoaderFinish

\* The goroutines.
Producers ==
    \/ Loader
    \/ \E i \in 2..MaxDepth : TaskStep(i)

\* The keys of the viewer stack: navigation, filters, pop and reset.
StackKeys(maxDepth, inputs) ==
    \/ KeyDown
    \/ KeyUp
    \/ KeyHome
    \/ KeyEnd
    \/ Draw
    \/ \E kind \in {"&", "-", "+"} : KeyFilter(maxDepth, kind)
    \/ PromptEsc
    \/ \E in \in inputs : FilterEnter(in[1], in[2], in[3])
    \/ \E reset \in BOOLEAN : HandleStackNav(reset)

SearchKeys ==
    \/ \E backward \in BOOLEAN : KeySearch(backward)
    \/ \E in \in SearchInputs : SearchEnter(in[1], in[2], in[3])

\* The viewer stack on a small file, to depth MaxDepth.
Next == Producers \/ StackKeys(MaxDepth, FilterInputs)

Spec == Init /\ [][Next]_vars

\* The same, with the Go scheduler running every goroutine that can run.
SpecLive ==
    /\ Init
    /\ [][Next]_vars
    /\ WF_vars(Loader)
    /\ \A i \in 2..MaxDepth : WF_vars(TaskStep(i))

\* The same with searches, to depth SearchDepth.
NextSearch == Producers \/ StackKeys(SearchDepth, FilterInputs) \/ SearchKeys

SpecSearch == Init /\ [][NextSearch]_vars

\* Searches and 'n'/'N' on the root viewer.
NextFind ==
    \/ Loader
    \/ KeyDown
    \/ KeyUp
    \/ KeyEnd
    \/ \E backward \in BOOLEAN : KeySearch(backward)
    \/ PromptEsc
    \/ \E in \in FindInputs : SearchEnter(in[1], in[2], in[3])
    \/ \E reverse \in BOOLEAN : KeySearchNav(reverse)

SpecFind == Init /\ [][NextFind]_vars

\* The record of a call of Search: what it returned and where it started.
SearchedFrom(ret, startLine) ==
    [op |-> "Search", changed |-> ret >= 0, depth |-> Len(viewers),
     searched |-> search.matches # <<>>, ret |-> ret, start |-> startLine]

\* The search state driven as the tests drive it: Search from any start line
\* in either direction, Next and Prev, on the lines loaded so far.
CallSearch(query, isRegex, ignoreCase, startLine, backward) ==
    /\ Running
    /\ LET r == Search(viewers[1].lines, viewers[1].hasANSI, query, startLine, backward,
                       isRegex, ignoreCase)
       IN  /\ search' = r.state
           /\ last' = SearchedFrom(r.ret, startLine)
    /\ UNCHANGED <<file, viewers, statusMessage, prompt, loader, tailers, history, merger, visual>>

CallNext ==
    /\ Running
    /\ search' = SearchStateNext(search).state
    /\ last' = Found("Next", SearchStateNext(search).ret)
    /\ UNCHANGED <<file, viewers, statusMessage, prompt, loader, tailers, history, merger, visual>>

CallPrev ==
    /\ Running
    /\ search' = SearchStatePrev(search).state
    /\ last' = Found("Prev", SearchStatePrev(search).ret)
    /\ UNCHANGED <<file, viewers, statusMessage, prompt, loader, tailers, history, merger, visual>>

NextSearchState ==
    \/ Loader
    \/ \E in \in FindInputs \ {<< <<>>, FALSE, FALSE >>} :
          \E startLine \in 0..(MaxFileLen - 1) : \E backward \in BOOLEAN :
              CallSearch(in[1], in[2], in[3], startLine, backward)
    \/ CallNext
    \/ CallPrev

SpecSearchState == Init /\ [][NextSearchState]_vars

\* The same calls on a loaded file of SearchFileLen lines, long enough for
\* several matches to lie before the start line.
InitSearchFar ==
    /\ file = FileOfLen(SearchFileLen)
    /\ viewers = NewViewerStack(
            [NewViewer(NoTask) EXCEPT
                !.lines = file,
                !.hasANSI = [k \in 1..Len(file) |-> lineHasANSI(file[k])],
                !.loading = FALSE])
    /\ search = ZeroSearch
    /\ statusMessage = ""
    /\ prompt = NoPrompt
    /\ loader = [pc |-> "done", read |-> Len(file)]
    /\ tailers = <<>>
    /\ history = NewHistory(<<>>)
    /\ merger = NoMerger
    /\ visual = NoVisual
    /\ last = Other

NextSearchFar ==
    \/ \E in \in FindInputs \ {<< <<>>, FALSE, FALSE >>} :
          \E startLine \in 0..(SearchFileLen - 1) : \E backward \in BOOLEAN :
              CallSearch(in[1], in[2], in[3], startLine, backward)
    \/ CallNext
    \/ CallPrev

SpecSearchFar == InitSearchFar /\ [][NextSearchFar]_vars

\* What is typed at a prompt in the runs about the history: queries that
\* are empty or begin with the characters of the flag prefix.
HistoryInputs ==
    {<< <<>>, TRUE, FALSE >>, << <<"a">>, FALSE, FALSE >>, << <<"|">>, TRUE, FALSE >>,
     << <<"r", "i", "|">>, FALSE, TRUE >>, << <<"-", "-">>, TRUE, TRUE >>}

\* The history file an earlier session left: n entries, no two in a row equal.
HistoryFile(n) ==
    [k \in 1..n |-> encodeHistoryEntry(IF k % 2 = 1 THEN <<"a">> ELSE <<"b">>, FALSE, FALSE)]

\* No file, a file one short of full and a full file.
HistoryFileLens == {0, maxHistoryEntries - 1, maxHistoryEntries}

InitHistory ==
    /\ file = <<>>
    /\ viewers = NewViewerStack(NewViewer(NoTask))
    /\ search = ZeroSearch
    /\ statusMessage = ""
    /\ prompt = NoPrompt
    /\ loader = [pc |-> "reading", read |-> 0]
    /\ tailers = <<>>
    /\ \E n \in HistoryFileLens : history = NewHistory(HistoryFile(n))
    /\ merger = NoMerger
    /\ visual = NoVisual
    /\ last = Other

\* The record of a call of the history: what was called with, and what it
\* returned (Up, Down).
Called(op, query, isRegex, ignoreCase, out) ==
    [op |-> op, changed |-> FALSE, depth |-> 0, searched |-> FALSE,
     query |-> query, isRegex |-> isRegex, ignoreCase |-> ignoreCase, out |-> out]

\* The session has added fewer than MaxAdds entries to the file it found.
MayAdd == \E n \in HistoryFileLens : n <= Len(history.entries) /\ Len(history.entries) < n + MaxAdds

CallAddWithModifiers(query, isRegex, ignoreCase) ==
    /\ MayAdd
    /\ history' = AddWithModifiers(history, query, isRegex, ignoreCase)
    /\ last' = Called("AddWithModifiers", query, isRegex, ignoreCase, <<>>)
    /\ UNCHANGED <<file, viewers, search, statusMessage, prompt, loader, tailers, merger, visual>>

CallAdd(entry) ==
    /\ MayAdd
    /\ history' = Add(history, entry)
    /\ last' = Called("Add", entry, FALSE, FALSE, <<>>)
    /\ UNCHANGED <<file, viewers, search, statusMessage, prompt, loader, tailers, merger, visual>>

CallReset ==
    /\ history' = HistoryReset(history)
    /\ last' = Called("Reset", <<>>, FALSE, FALSE, <<>>)
    /\ UNCHANGED <<file, viewers, search, statusMessage, prompt, loader, tailers, merger, visual>>

\* The prompt has gone up fewer than MaxUps entries from the newest.
MayGoUp == history.index = -1 \/ Len(history.entries) - history.index <= MaxUps

CallUpWithModifiers(query, isRegex, ignoreCase) ==
    /\ MayGoUp
    /\ history' = UpWithModifiers(history, query, isRegex, ignoreCase).h
    /\ last' = Called("Up", query, isRegex, ignoreCase,
                      UpWithModifiers(history, query, isRegex, ignoreCase).out)
    /\ UNCHANGED <<file, viewers, search, statusMessage, prompt, loader, tailers, merger, visual>>

CallDownWithModifiers(query, isRegex, ignoreCase) ==
    /\ history' = DownWithModifiers(history, query, isRegex, ignoreCase).h
    /\ last' = Called("Down", query, isRegex, ignoreCase,
                      DownWithModifiers(history, query, isRegex, ignoreCase).out)
    /\ UNCHANGED <<file, viewers, search, statusMessage, prompt, loader, tailers, merger, visual>>

NextHistory ==
    \/ \E in \in HistoryInputs : CallAddWithModifiers(in[1], in[2], in[3])
    \/ \E entry \in {<<>>, <<"a">>} : CallAdd(entry)
    \/ CallReset
    \/ \E in \in HistoryInputs : CallUpWithModifiers(in[1], in[2], in[3])
    \/ \E in \in HistoryInputs : CallDownWithModifiers(in[1], in[2], in[3])

SpecHistory == InitHistory /\ [][NextHistory]_vars

----------------------------------------------------------------------------
(* A history file written by an earlier version of the program, which       *)
(* stored each query as typed (History.Add), read back at a prompt.         *)

\* Queries as an earlier version stored them: "a", "ab", "ab|a" and "xi|".
LegacyRecords ==
    {<<"a">>, <<"a", "b">>, <<"a", "b", "|", "a">>, <<"x", "i", "|">>}

\* History files of up to two such records, no two in a row equal.
LegacyFiles ==
    {<<>>} \cup {<<r>> : r \in LegacyRecords}
           \cup {f \in LegacyRecords \X LegacyRecords : f[1] # f[2]}

LegacyInputs == {<< <<>>, FALSE, FALSE >>, << <<"a">>, TRUE, TRUE >>}

InitLegacy ==
    /\ file = <<>>
    /\ viewers = NewViewerStack(NewViewer(NoTask))
    /\ search = ZeroSearch
    /\ statusMessage = ""
    /\ prompt = NoPrompt
    /\ loader = [pc |-> "reading", read |-> 0]
    /\ tailers = <<>>
    /\ \E f \in LegacyFiles : history = NewHistory(f)
    /\ merger = NoMerger
    /\ visual = NoVisual
    /\ last = Other

NextLegacy ==
    \/ CallReset
    \/ \E in \in LegacyInputs : CallUpWithModifiers(in[1], in[2], in[3])
    \/ \E in \in LegacyInputs : CallDownWithModifiers(in[1], in[2], in[3])

SpecLegacy == InitLegacy /\ [][NextLegacy]_vars

\* Follow mode on a file that grows, with filters to depth FollowDepth.
InitFollow ==
    /\ file \in Files
    /\ \E f \in BOOLEAN :
          viewers = NewViewerStack([NewViewer(NoTask) EXCEPT !.follow = f])
    /\ search = ZeroSearch
    /\ statusMessage = ""
    /\ prompt = NoPrompt
    /\ loader = [pc |-> "reading", read |-> 0]
    /\ tailers = <<>>
    /\ history = NewHistory(<<>>)
    /\ merger = NoMerger
    /\ visual = NoVisual
    /\ last = Other

Tailers ==
    \E k \in 1..MaxTailers :
        \/ TailerCheck(k)
        \/ TailerCount(k)
        \/ TailerScan(k)
        \/ TailerBottom(k)
        \/ TailerAppend(k)

NextFollow ==
    \/ Producers
    \/ Tailers
    \/ FileAppend
    \/ KeyFollow(MaxTailers)
    \/ StackKeys(FollowDepth, FilterInputs)

SpecFollow == InitFollow /\ [][NextFollow]_vars

\* Follow mode toggled off and on again: up to TwoTailers followFile
\* goroutines on a file that grows, no filters.
NextToggle ==
    \/ Loader
    \/ \E k \in 1..TwoTailers :
          \/ TailerCheck(k)
          \/ TailerCount(k)
          \/ TailerScan(k)
          \/ TailerBottom(k)
          \/ TailerAppend(k)
    \/ FileAppend
    \/ KeyFollow(TwoTailers)

SpecToggle == InitFollow /\ [][NextToggle]_vars

\* One keep or exclude filter of a loaded file big enough for numWorkers
\* workers.
InitBig ==
    /\ file \in BigFiles
    /\ viewers = NewViewerStack(
            [NewViewer(NoTask) EXCEPT
                !.lines = file,
                !.hasANSI = [k \in 1..Len(file) |-> lineHasANSI(file[k])],
                !.loading = FALSE])
    /\ search = ZeroSearch
    /\ statusMessage = ""
    /\ prompt = NoPrompt
    /\ loader = [pc |-> "done", read |-> Len(file)]
    /\ tailers = <<>>
    /\ history = NewHistory(<<>>)
    /\ merger = NoMerger
    /\ visual = NoVisual
    /\ last = Other

NextBig ==
    \/ TaskStep(2)
    \/ \E kind \in {"&", "-"} : KeyFilter(2, kind)
    \/ \E in \in BigFilterInputs : FilterEnter(in[1], in[2], in[3])

SpecBig == InitBig /\ [][NextBig]_vars

\* The three filters on a loaded file of AppendFileLen lines, in which lines
\* repeat, to depth AppendDepth.
AppendInputs == {<< <<"a">>, FALSE, FALSE >>, << <<"b">>, TRUE, TRUE >>}

InitAppend ==
    /\ file = FileOfLen(AppendFileLen)
    /\ viewers = NewViewerStack(
            [NewViewer(NoTask) EXCEPT
                !.lines = file,
                !.hasANSI = [k \in 1..Len(file) |-> lineHasANSI(file[k])],
                !.loading = FALSE])
    /\ search = ZeroSearch
    /\ statusMessage = ""
    /\ prompt = NoPrompt
    /\ loader = [pc |-> "done", read |-> Len(file)]
    /\ tailers = <<>>
    /\ history = NewHistory(<<>>)
    /\ merger = NoMerger
    /\ visual = NoVisual
    /\ last = Other

NextAppend ==
    \/ \E i \in 2..AppendDepth : TaskStep(i)
    \/ \E kind \in {"&", "-", "+"} : KeyFilter(AppendDepth, kind)
    \/ \E in \in AppendInputs : FilterEnter(in[1], in[2], in[3])

SpecAppend == InitAppend /\ [][NextAppend]_vars

\* Keep and exclude filters of a loaded file that has been scrolled to any of
\* its lines; nothing is pressed but the filter commands.
InitSeed ==
    /\ file = FileOfLen(AppendFileLen)
    /\ \E topLine \in 0..(AppendFileLen - 1) :
          viewers = NewViewerStack(
              [NewViewer(NoTask) EXCEPT
                  !.lines = file,
                  !.hasANSI = [k \in 1..Len(file) |-> lineHasANSI(file[k])],
                  !.loading = FALSE,
                  !.topLine = topLine])
    /\ search = ZeroSearch
    /\ statusMessage = ""
    /\ prompt = NoPrompt
    /\ loader = [pc |-> "done", read |-> Len(file)]
    /\ tailers = <<>>
    /\ history = NewHistory(<<>>)
    /\ merger = NoMerger
    /\ visual = NoVisual
    /\ last = Other

NextSeed ==
    \/ \E i \in 2..AppendDepth : TaskStep(i)
    \/ \E kind \in {"&", "-"} : KeyFilter(AppendDepth, kind)
    \/ \E in \in AppendInputs : FilterEnter(in[1], in[2], in[3])

SpecSeed == InitSeed /\ [][NextSeed]_vars

----------------------------------------------------------------------------
(* The display of one viewer: word wrap ('w'), JSON pretty-printing ('f'),  *)
(* paging, ':' and the search keys on a loaded file, in a terminal that is  *)
(* resized.  Every key ends with Draw, which resizes the current viewer to  *)
(* the terminal; with one viewer its width and height are the terminal's.   *)

\* The lines of TestNavigateWithOffset, and a line that holds JSON.
LongLine == [i \in 1..100 |-> "x"]
Short == <<"s", "h", "o", "r", "t">>
JsonLine == <<"[", "1", ",", "1", "]">>

WrapFiles == {<<>>, <<LongLine, Short>>, <<JsonLine, Short, LongLine>>}

\* termbox.Size(): width and height.
TermSizes == {<<20, 3>>, <<50, 4>>}

\* What the user types at the ':' prompt: line numbers.
GotoInputs == 0..4

WrapSearchInputs == {<< <<"s">>, FALSE, FALSE >>}

InitWrap ==
    /\ file \in WrapFiles
    /\ \E size \in TermSizes :
          viewers = NewViewerStack(
              resize([NewViewer(NoTask) EXCEPT
                          !.lines = file,
                          !.hasANSI = [k \in 1..Len(file) |-> lineHasANSI(file[k])],
                          !.loading = FALSE],
                     size[1], size[2]))
    /\ search = ZeroSearch
    /\ statusMessage = ""
    /\ prompt = NoPrompt
    /\ loader = [pc |-> "done", read |-> Len(file)]
    /\ tailers = <<>>
    /\ history = NewHistory(<<>>)
    /\ merger = NoMerger
    /\ visual = NoVisual
    /\ last = Other

KeyPageDown == KeyNav(pageDown(Current(viewers)))

KeyPageUp == KeyNav(pageUp(Current(viewers)))

\* 'w': toggle word wrap.
KeyWrap ==
    KeyNav([Current(viewers) EXCEPT !.wordWrap = ~@, !.topLineOffset = 0])

\* 'f': toggle JSON pretty-printing.
KeyJson ==
    KeyNav([Current(viewers) EXCEPT !.jsonPretty = ~@, !.topLineOffset = 0])

\* ':' and a line number, Enter: HandleGotoLine.
GotoLine(lineNum) ==
    LET current == Current(viewers)
        maxLine == LineCount(current) - 1
        lineIdx == Min(Max(lineNum - 1, 0), maxLine)
    IN  KeyNav([current EXCEPT !.topLine = lineIdx])

\* The terminal is resized: the loop draws, and Draw resizes the viewer.
Resize(size) ==
    /\ Idle
    /\ viewers' = SetCurrent(viewers, resize(Current(viewers), size[1], size[2]))
    /\ last' = AfterDraw(Other, viewers', statusMessage)
    /\ UNCHANGED <<file, search, statusMessage, prompt, loader, tailers, history, merger, visual>>

NextWrap ==
    \/ KeyDown
    \/ KeyUp
    \/ KeyHome
    \/ KeyEnd
    \/ KeyPageDown
    \/ KeyPageUp
    \/ KeyWrap
    \/ KeyJson
    \/ \E lineNum \in GotoInputs : GotoLine(lineNum)
    \/ \E size \in TermSizes : Resize(size)
    \/ \E backward \in BOOLEAN : KeySearch(backward)
    \/ PromptEsc
    \/ \E in \in WrapSearchInputs : SearchEnter(in[1], in[2], in[3])
    \/ \E reverse \in BOOLEAN : KeySearchNav(reverse)

SpecWrap == InitWrap /\ [][NextWrap]_vars

----------------------------------------------------------------------------
(* getExpandedLineCount called on one viewer, as the tests call it, between *)
(* the 'w' and 'f' keys and resizes of the terminal.  The viewer starts as  *)
(* NewViewerFromLines leaves it: width 0 until the first Draw.              *)

\* An empty line, a short one, a coloured one and a JSON array.
RowsFile == <<<<>>, Short, LaColored, JsonLine>>

RowsFiles == {<<>>, RowsFile}

\* termbox.Size(): width and height.
RowsSizes == {<<0, 0>>, <<2, 3>>, <<3, 3>>}

\* The record of a call of getExpandedLineCount: the index and the result.
Counted(lineIdx, count) ==
    [op |-> "count", changed |-> FALSE, depth |-> 0, searched |-> FALSE,
     lineIdx |-> lineIdx, count |-> count]

InitRows ==
    /\ file \in RowsFiles
    /\ viewers = NewViewerStack(
            [NewViewer(NoTask) EXCEPT
                !.lines = file,
                !.hasANSI = [k \in 1..Len(file) |-> lineHasANSI(file[k])],
                !.loading = FALSE])
    /\ search = ZeroSearch
    /\ statusMessage = ""
    /\ prompt = NoPrompt
    /\ loader = [pc |-> "done", read |-> Len(file)]
    /\ tailers = <<>>
    /\ history = NewHistory(<<>>)
    /\ merger = NoMerger
    /\ visual = NoVisual
    /\ last = Other

CallCount(lineIdx) ==
    /\ Running
    /\ LET r == getExpandedLineCount(Current(viewers), lineIdx)
       IN  /\ viewers' = SetCurrent(viewers, r.v)
           /\ last' = Counted(lineIdx, r.count)
    /\ UNCHANGED <<file, search, statusMessage, prompt, loader, tailers, history, merger, visual>>

NextRows ==
    \/ \E lineIdx \in -1..Len(RowsFile) : CallCount(lineIdx)
    \/ KeyWrap
    \/ KeyJson
    \/ \E size \in RowsSizes : Resize(size)

SpecRows == InitRows /\ [][NextRows]_vars

----------------------------------------------------------------------------
(* Visual mode: 'v' starts a selection of lines at the top line, the        *)
(* navigation keys move its cursor, 'y' copies the selection, Esc and 'q'   *)
(* leave.  The other commands are dispatched as in normal mode.  One loaded *)
(* viewer in a terminal of VisualSize.                                      *)

EnterVisualMode(current) ==
    [visualMode |-> TRUE, visualStart |-> current.topLine, visualCursor |-> current.topLine]

\* The visual handlers: the visual state and the current viewer after them.
VisualCursorDown(a, current) ==
    IF a.visualCursor < LineCount(current) - 1
    THEN [a |-> [a EXCEPT !.visualCursor = @ + 1],
          v |-> IF a.visualCursor + 1 >= current.topLine + current.height
                THEN [current EXCEPT !.topLine = @ + 1] ELSE current]
    ELSE [a |-> a, v |-> current]

VisualCursorUp(a, current) ==
    IF a.visualCursor > 0
    THEN [a |-> [a EXCEPT !.visualCursor = @ - 1],
          v |-> IF a.visualCursor - 1 < current.topLine
                THEN [current EXCEPT !.topLine = @ - 1] ELSE current]
    ELSE [a |-> a, v |-> current]

\* Scroll to keep the cursor visible, as the page-down and end handlers do.
ScrollDownTo(current, cursor) ==
    IF cursor >= current.topLine + current.height
    THEN [current EXCEPT !.topLine = Max(cursor - current.height + 1, 0)]
    ELSE current

VisualPageDown(a, current) ==
    LET cursor == IF a.visualCursor + current.height >= LineCount(current)
                  THEN LineCount(current) - 1
                  ELSE a.visualCursor + current.height
    IN  [a |-> [a EXCEPT !.visualCursor = cursor], v |-> ScrollDownTo(current, cursor)]

VisualPageUp(a, current) ==
    LET cursor == Max(a.visualCursor - current.height, 0)
    IN  [a |-> [a EXCEPT !.visualCursor = cursor],
         v |-> IF cursor < current.topLine THEN [current EXCEPT !.topLine = cursor]
               ELSE current]

VisualGoToStart(a, current) ==
    [a |-> [a EXCEPT !.visualCursor = 0], v |-> [current EXCEPT !.topLine = 0]]

VisualGoToEnd(a, current) ==
    LET cursor == LineCount(current) - 1
    IN  [a |-> [a EXCEPT !.visualCursor = cursor], v |-> ScrollDownTo(current, cursor)]

\* YankVisualSelection: the lines handed to the clipboard, escapes stripped.
YankVisualSelection(a, current) ==
    LET startLine == Min(a.visualStart, a.visualCursor)
        endLine == Max(a.visualStart, a.visualCursor)
    IN  [i \in 1..(endLine - startLine + 1) |-> stripANSI(GetLine(current, startLine + i - 1))]

\* The record of a yank: the selection it was made with and what it copied.
Yanked(a, text) ==
    [op |-> "yank", changed |-> FALSE, depth |-> 0, searched |-> FALSE,
     visualStart |-> a.visualStart, visualCursor |-> a.visualCursor, text |-> text]

VisualFiles == {<<>>, FileOfLen(SearchFileLen)}

\* termbox.Size(): width and height.
VisualSize == <<20, 3>>

InitVisual ==
    /\ file \in VisualFiles
    /\ viewers = NewViewerStack(
            resize([NewViewer(NoTask) EXCEPT
                        !.lines = file,
                        !.hasANSI = [k \in 1..Len(file) |-> lineHasANSI(file[k])],
                        !.loading = FALSE],
                   VisualSize[1], VisualSize[2]))
    /\ search = ZeroSearch
    /\ statusMessage = ""
    /\ prompt = NoPrompt
    /\ loader = [pc |-> "done", read |-> Len(file)]
    /\ tailers = <<>>
    /\ history = NewHistory(<<>>)
    /\ merger = NoMerger
    /\ visual = NoVisual
    /\ last = Other

\* A key that changes the visual state and, for a move, the current viewer.
VisualStep(a, v, msg, step) ==
    /\ Idle
    /\ visual' = a
    /\ viewers' = SetCurrent(viewers, v)
    /\ statusMessage' = msg
    /\ last' = AfterDraw(step, viewers', statusMessage')
    /\ UNCHANGED <<file, search, prompt, loader, tailers, history, merger>>

VisualMove(r) == visual.visualMode /\ VisualStep(r.a, r.v, "", Other)

\* 'v'
KeyVisual ==
    /\ ~visual.visualMode
    /\ VisualStep(EnterVisualMode(Current(viewers)), Current(viewers), "", Other)

\* Esc, 'q'
KeyVisualExit ==
    /\ visual.visualMode
    /\ VisualStep(NoVisual, Current(viewers), "", Other)

KeyVisualDown == VisualMove(VisualCursorDown(visual, Current(viewers)))

KeyVisualUp == VisualMove(VisualCursorUp(visual, Current(viewers)))

KeyVisualPageDown == VisualMove(VisualPageDown(visual, Current(viewers)))

KeyVisualPageUp == VisualMove(VisualPageUp(visual, Current(viewers)))

KeyVisualHome == VisualMove(VisualGoToStart(visual, Current(viewers)))

KeyVisualEnd == VisualMove(VisualGoToEnd(visual, Current(viewers)))

\* 'y'
KeyYank ==
    /\ visual.visualMode
    /\ VisualStep(NoVisual, Current(viewers), ShowTempMessage("Yanked"),
                  Yanked(visual, YankVisualSelection(visual, Current(viewers))))

VisualMoves ==
    \/ KeyVisualDown
    \/ KeyVisualUp
    \/ KeyVisualPageDown
    \/ KeyVisualPageUp
    \/ KeyVisualHome
    \/ KeyVisualEnd

NextVisual ==
    \/ KeyVisual
    \/ KeyVisualExit
    \/ VisualMoves
    \/ KeyYank
    \/ ~visual.visualMode /\ KeyDown
    \/ ~visual.visualMode /\ KeyEnd
    \/ \E lineNum \in GotoInputs : GotoLine(lineNum)
    \/ \E backward \in BOOLEAN : KeySearch(backward)
    \/ PromptEsc
    \/ \E in \in WrapSearchInputs : SearchEnter(in[1], in[2], in[3])
    \/ \E reverse \in BOOLEAN : KeySearchNav(reverse)

SpecVisual == InitVisual /\ [][NextVisual]_vars

----------------------------------------------------------------------------
(* parseANSI and stripANSI on one line: the cells the draw functions put on *)
(* the screen and the text the search and the filters match.                *)

AnsiChars == {ESC, "[", "m", "A", "a", "1"}

\* Every line of at most AnsiLineLen characters.
AnsiLines == UNION {[1..n -> AnsiChars] : n \in 0..AnsiLineLen}

InitAnsi ==
    /\ \E line \in AnsiLines : file = <<line>>
    /\ viewers = NewViewerStack(
            [NewViewer(NoTask) EXCEPT
                !.lines = file,
                !.hasANSI = [k \in 1..Len(file) |-> lineHasANSI(file[k])],
                !.loading = FALSE])
    /\ search = ZeroSearch
    /\ statusMessage = ""
    /\ prompt = NoPrompt
    /\ loader = [pc |-> "done", read |-> Len(file)]
    /\ tailers = <<>>
    /\ history = NewHistory(<<>>)
    /\ merger = NoMerger
    /\ visual = NoVisual
    /\ last = Other

\* The record of a line drawn: its cells.
Drawn(cells) ==
    [op |-> "cells", changed |-> FALSE, depth |-> Len(viewers), searched |-> FALSE,
     cells |-> cells]

\* The draw functions parse the top line into cells.
DrawLine ==
    /\ last.op = "other"
    /\ last' = Drawn(parseANSI(GetLine(Current(viewers), 0)))
    /\ UNCHANGED <<file, viewers, search, statusMessage, prompt, loader, tailers, history,
                   merger, visual>>

NextAnsi == DrawLine

SpecAnsi == InitAnsi /\ [][NextAnsi]_vars

----------------------------------------------------------------------------
(* NewViewerFromMultipleFiles: the goroutine opens the files, keeps one     *)
(* pending line per stream and emits, one line per iteration, the pending   *)
(* line of the stream it picks.  The list of timestamp formats is           *)
(* represented by one format, whose timestamps are one digit long; a line   *)
(* has a timestamp when one of its first characters parses in the detected  *)
(* format.  Every file opens.                                               *)

TimeFormat == "%T"

Digits == {"0", "1", "2", "3"}

DigitOf(n) == CASE n = 0 -> "0" [] n = 1 -> "1" [] n = 2 -> "2" [] OTHER -> "3"

ValueOf(c) == CASE c = "0" -> 0 [] c = "1" -> 1 [] c = "2" -> 2 [] OTHER -> 3

\* time.Parse of the substring at position i (0-based) succeeds.
ParsesAt(line, i) == line[i + 1] \in Digits

\* The positions the two scans try: i <= len(line) - fmtLen and i < limit.
ScanPositions(line, limit) == {i \in 0..(Len(line) - 1) : i < limit /\ ParsesAt(line, i)}

detectTimestampFormat(line) ==
    IF ScanPositions(line, 50) # {} THEN TimeFormat ELSE ""

\* extractTimestamp: the first substring that parses.
extractTimestamp(line, pyFormat) ==
    LET found == ScanPositions(line, 100)
    IN  IF found = {}
        THEN [t |-> 0, ok |-> FALSE]
        ELSE [t |-> ValueOf(line[(CHOOSE i \in found : \A j \in found : i <= j) + 1]),
              ok |-> TRUE]

\* The lines of the files merged: with a timestamp, without, and with a
\* timestamp that is not at the start of the line.
MergeLines == {<<"1">>, <<"2">>, <<"x">>, <<"x", "1">>}

MergeFiles ==
    {<<>>} \cup {<<a>> : a \in MergeLines} \cup {<<a, b>> : a, b \in MergeLines}

\* prefix: fmt.Sprintf("%d> ", fileIdx).
Prefix(fileIdx) == <<DigitOf(fileIdx), ">", " ">>

\* The stream of file fileIdx (0-based) after the attempt to read its first
\* line, with the format detected so far.
PrimedStream(lines, fileIdx, detectedFormat) ==
    LET base == [rest |-> <<>>, fileIdx |-> fileIdx, prefix |-> Prefix(fileIdx),
                 currLine |-> <<>>, currTime |-> 0, hasTime |-> FALSE,
                 exhausted |-> FALSE]
    IN  IF lines = <<>>
        THEN [base EXCEPT !.exhausted = TRUE]
        ELSE LET line == Head(lines)
                 ts == extractTimestamp(line, detectedFormat)
                 stamped == detectedFormat # "" /\ ts.ok
             IN  [base EXCEPT !.rest = Tail(lines),
                              !.currLine = Prefix(fileIdx) \o line,
                              !.currTime = IF stamped THEN ts.t ELSE 0,
                              !.hasTime = stamped]

\* The loop that opens the files: streams and detectedFormat after the
\* files from index k (1-based) on.
RECURSIVE OpenFrom(_, _, _, _)
OpenFrom(files, k, streams, detectedFormat) ==
    IF k > Len(files) THEN [streams |-> streams, detectedFormat |-> detectedFormat]
    ELSE LET format == IF files[k] # <<>> /\ detectedFormat = ""
                       THEN detectTimestampFormat(Head(files[k]))
                       ELSE detectedFormat
         IN  OpenFrom(files, k + 1,
                      Append(streams, PrimedStream(files[k], k - 1, format)), format)

\* A pick that gives the priority to the lines with a timestamp (for
\* comparison).
RECURSIVE PickTimedFirst(_, _, _)
PickTimedFirst(streams, k, picked) ==
    IF k > Len(streams) THEN picked
    ELSE LET s == streams[k]
         IN  IF s.exhausted THEN PickTimedFirst(streams, k + 1, picked)
             ELSE IF picked = 0 THEN PickTimedFirst(streams, k + 1, k)
             ELSE IF s.hasTime /\ ~streams[picked].hasTime
                  THEN PickTimedFirst(streams, k + 1, k)
             ELSE IF s.hasTime /\ streams[picked].hasTime
                       /\ s.currTime < streams[picked].currTime
                  THEN PickTimedFirst(streams, k + 1, k)
                  ELSE PickTimedFirst(streams, k + 1, picked)

\* The loop that finds the stream to pick; picked is a position in streams,
\* 0 for nil.
RECURSIVE PickFrom(_, _, _)
PickFrom(streams, k, picked) ==
    IF k > Len(streams) THEN picked
    ELSE LET s == streams[k]
         IN  IF s.exhausted THEN PickFrom(streams, k + 1, picked)
             ELSE IF picked = 0 THEN PickFrom(streams, k + 1, k)
             ELSE IF ~s.hasTime /\ streams[picked].hasTime
                  THEN PickFrom(streams, k + 1, k)
             ELSE IF s.hasTime /\ ~streams[picked].hasTime
                  THEN PickFrom(streams, k + 1, picked)
             ELSE IF s.hasTime /\ streams[picked].hasTime
                       /\ s.currTime < streams[picked].currTime
                  THEN PickFrom(streams, k + 1, k)
                  ELSE PickFrom(streams, k + 1, picked)

\* picked.scanner.Scan() and what follows it.
Advance(s, detectedFormat) ==
    IF s.rest = <<>>
    THEN [s EXCEPT !.exhausted = TRUE]
    ELSE LET line == Head(s.rest)
             ts == extractTimestamp(line, detectedFormat)
             stamped == detectedFormat # "" /\ ts.ok
         IN  [s EXCEPT !.rest = Tail(s.rest),
                       !.currLine = s.prefix \o line,
                       !.currTime = IF stamped THEN ts.t ELSE s.currTime,
                       !.hasTime = stamped]

\* The record of an iteration of the merge loop.
Picked(k) == [op |-> "pick", changed |-> TRUE, depth |-> 0, searched |-> FALSE, stream |-> k]

\* The viewer NewViewerFromMultipleFiles returns, and its goroutine about to
\* open the files.
InitMerge ==
    /\ file = <<>>
    /\ viewers = NewViewerStack(NewViewer(NoTask))
    /\ search = ZeroSearch
    /\ statusMessage = ""
    /\ prompt = NoPrompt
    /\ loader = [pc |-> "done", read |-> 0]
    /\ tailers = <<>>
    /\ history = NewHistory(<<>>)
    /\ visual = NoVisual
    /\ \E files \in [1..MergeStreams -> MergeFiles] :
          merger = [pc |-> "open", files |-> files, streams |-> <<>>,
                    detectedFormat |-> "", batch |-> <<>>]
    /\ last = Other

MergerOpen ==
    /\ merger.pc = "open"
    /\ LET opened == OpenFrom(merger.files, 1, <<>>, "")
       IN  merger' = [merger EXCEPT !.pc = "merge",
                                    !.streams = opened.streams,
                                    !.detectedFormat = opened.detectedFormat]
    /\ last' = Background
    /\ UNCHANGED <<file, viewers, search, statusMessage, prompt, loader, tailers, history, visual>>

\* One iteration of the merge loop that picks a stream.
MergerPick ==
    /\ merger.pc = "merge"
    /\ LET picked == PickFrom(merger.streams, 1, 0)
       IN  /\ picked # 0
           /\ LET batch == Append(merger.batch, merger.streams[picked].currLine)
                   streams == [merger.streams EXCEPT
                                  ![picked] = Advance(@, merger.detectedFormat)]
                   root == viewers[1]
               IN  IF Len(batch) >= batchSize
                   THEN /\ viewers' = [viewers EXCEPT ![1] =
                               [root EXCEPT
                                   !.lines = @ \o batch,
                                   !.hasANSI = @ \o [k \in 1..Len(batch) |->
                                                        lineHasANSI(batch[k])]]]
                        /\ merger' = [merger EXCEPT !.streams = streams, !.batch = <<>>]
                   ELSE /\ merger' = [merger EXCEPT !.streams = streams, !.batch = batch]
                        /\ UNCHANGED viewers
           /\ last' = Picked(picked)
    /\ UNCHANGED <<file, search, statusMessage, prompt, loader, tailers, history, visual>>

\* All streams are exhausted: append what remains and clear loading.
MergerFinish ==
    /\ merger.pc = "merge"
    /\ PickFrom(merger.streams, 1, 0) = 0
    /\ LET batch == merger.batch
           root == viewers[1]
       IN  viewers' = [viewers EXCEPT ![1] =
               [root EXCEPT
                   !.lines = @ \o batch,
                   !.hasANSI = @ \o [k \in 1..Len(batch) |-> lineHasANSI(batch[k])],
                   !.loading = FALSE]]
    /\ merger' = [merger EXCEPT !.pc = "done", !.batch = <<>>]
    /\ last' = Background
    /\ UNCHANGED <<file, search, statusMessage, prompt, loader, tailers, history, visual>>

NextMerge == MergerOpen \/ MergerPick \/ MergerFinish

SpecMerge == InitMerge /\ [][NextMerge]_vars

----------------------------------------------------------------------------
(* The claims *)

\* v and w are the same viewer, up to where it is positioned.
SameButPosition(v, w) ==
    [v EXCEPT !.topLine = w.topLine, !.topLineOffset = w.topLineOffset] = w

\* C1: after any sequence of pushes (filters), pops and resets the stack
\* holds at least one viewer, its element 0 is the root viewer created at
\* startup (the one viewer no filter made), and no other element is.
C1_RootAtBottom ==
    /\ Len(viewers) >= 1
    /\ viewers[1].task = NoTask
    /\ \A i \in 2..Len(viewers) : viewers[i].task # NoTask

\* A pop from depth 2 has just left the root alone on the stack.
C1_Witness ==
    /\ last.op = "pop"
    /\ last.depth = 2
    /\ Len(viewers) = 1
    /\ viewers[1].task = NoTask

\* C2: Pop on a stack of size 1 returns false and leaves the stack as it is;
\* on a stack of size n > 1 it returns true and removes exactly the top
\* viewer: the n-1 viewers below are left in the same order, and Current()
\* is the viewer that was directly below the top.  The 'U' command leaves
\* the stack Pop made, the new current viewer repositioned.
C2_Pop ==
    [][last'.op = "pop" =>
        LET n == Len(viewers)
            r == Pop(viewers)
        IN  /\ last'.changed = r.changed
            /\ IF n = 1
               THEN /\ ~r.changed
                    /\ r.viewers = viewers
                    /\ viewers' = viewers
               ELSE /\ r.changed
                    /\ Len(r.viewers) = n - 1
                    /\ \A i \in 1..(n - 1) : r.viewers[i] = viewers[i]
                    /\ Current(r.viewers) = viewers[n - 1]
                    /\ Len(viewers') = n - 1
                    /\ \A i \in 1..(n - 2) : viewers'[i] = viewers[i]
                    /\ SameButPosition(viewers[n - 1], viewers'[n - 1])]_vars

\* A pop from the deepest stack has just removed one viewer.
C2_Witness ==
    /\ last.op = "pop"
    /\ last.changed
    /\ last.depth = MaxDepth
    /\ Len(viewers) = MaxDepth - 1

\* C3: Reset on a stack of size > 1 truncates it to exactly its first
\* element, so Current() is the root whatever number of viewers had been
\* pushed; on a stack of size 1 it changes nothing and reports no change.
C3_Reset ==
    [][last'.op = "reset" =>
        LET n == Len(viewers)
            r == Reset(viewers)
        IN  /\ last'.changed = r.changed
            /\ IF n = 1
               THEN /\ ~r.changed
                    /\ r.viewers = viewers
                    /\ viewers' = viewers
               ELSE /\ r.changed
                    /\ r.viewers = <<viewers[1]>>
                    /\ Len(viewers') = 1
                    /\ Current(viewers').task = NoTask
                    /\ SameButPosition(viewers[1], viewers'[1])]_vars

\* A reset from the deepest stack has just left the root alone.
C3_Witness ==
    /\ last.op = "reset"
    /\ last.changed
    /\ last.depth = MaxDepth
    /\ Len(viewers) = 1

\* C4: after every command that changes the stack (a filter that pushes a
\* viewer, a pop, a reset) the search state is cleared: the query is empty,
\* matches is empty and current is -1.
C4_SearchCleared ==
    [][(last'.op \in {"filter", "pop", "reset"} /\ last'.changed) =>
        /\ search'.query = <<>>
        /\ search'.matches = <<>>
        /\ search'.current = -1]_vars

\* A search had matches and a pop has just cleared them.
C4_Witness ==
    /\ last.op = "pop"
    /\ last.changed
    /\ last.searched
    /\ search.matches = <<>>
    /\ search.current = -1

\* The viewer at position i is being filled by its filter goroutine.
Loading(i) == Len(viewers) >= i /\ viewers[i].loading

\* C5: every filter with a non-empty valid pattern eventually completes,
\* whatever the length of the snapshot it filters: as long as the program
\* runs and the viewer is on the stack, a loading filter viewer eventually
\* has loading = false.
C5_FilterCompletes ==
    \A i \in 2..MaxDepth : Loading(i) ~> (~Loading(i) \/ ~Running)

\* The indices (0-based, ascending) from i on of the lines a sequential pass
\* retains: those whose text without escape sequences matches, for keep, or
\* does not match, for exclude.
RECURSIVE SequentialFilter(_, _, _, _, _, _)
SequentialFilter(lines, i, query, isRegex, ignoreCase, keep) ==
    IF i >= Len(lines) THEN <<>>
    ELSE (IF Matcher(query, isRegex, ignoreCase, stripANSI(lines[i + 1]), FALSE) = keep
          THEN <<i>> ELSE <<>>)
         \o SequentialFilter(lines, i + 1, query, isRegex, ignoreCase, keep)

\* C6: when a keep or exclude filter completes, in whatever order its chunk
\* workers finished, the viewer's lines are exactly the sequential filter of
\* the parent's lines, in parent order, and lines[k] is the parent line at
\* originIndices[k].
C6_FilterIsSequential ==
    [][\A i \in 2..Len(viewers) :
        (/\ Len(viewers') >= i
         /\ viewers[i].task.pc = "merge"
         /\ viewers'[i].task.pc = "done"
         /\ viewers[i].task.kind \in {"keep", "exclude"}) =>
            LET t == viewers[i].task
                parent == viewers[i - 1].lines
                expected == SequentialFilter(parent, 0, t.query, t.isRegex, t.ignoreCase,
                                             t.kind = "keep")
            IN  /\ viewers'[i].originIndices = expected
                /\ viewers'[i].lines = [k \in 1..Len(expected) |-> parent[expected[k] + 1]]
                /\ viewers'[i].hasANSI =
                       [k \in 1..Len(expected) |-> lineHasANSI(parent[expected[k] + 1])]]_vars

\* An exclude filter of a file with one line per worker has completed with
\* several lines, its results having arrived out of chunk order.
C6_Witness ==
    /\ Len(file) = numWorkers
    /\ Len(viewers) = 2
    /\ viewers[2].task.pc = "done"
    /\ viewers[2].task.kind = "exclude"
    /\ ~viewers[2].task.inOrder
    /\ Len(viewers[2].lines) >= 2

StrictlyAscending(s) == \A i \in 1..(Len(s) - 1) : s[i] < s[i + 1]

\* C7: for every viewer a filter command made, once loading is false its
\* originIndices is strictly ascending and every entry lies in
\* [0, parent_len), parent_len being the line count of the snapshot of the
\* viewer directly below when the filter was issued.
C7_OriginInParent ==
    \A i \in 2..Len(viewers) :
        ~viewers[i].loading =>
            /\ StrictlyAscending(viewers[i].originIndices)
            /\ \A k \in 1..Len(viewers[i].originIndices) :
                   /\ 0 <= viewers[i].originIndices[k]
                   /\ viewers[i].originIndices[k] < viewers[i].task.parentLen

\* C8, as the program has it: in every state every viewer's lines and
\* hasANSI have the same length; a filtered viewer's originIndices is empty
\* while it is loading and has the length of lines once loading is false.
C8_EqualLengths ==
    \A i \in 1..Len(viewers) :
        /\ Len(viewers[i].lines) = Len(viewers[i].hasANSI)
        /\ viewers[i].task # NoTask =>
               IF viewers[i].loading
               THEN viewers[i].originIndices = <<>>
               ELSE Len(viewers[i].originIndices) = Len(viewers[i].lines)

\* C8, as stated: in every state every viewer's lines and hasANSI and, for a
\* filtered viewer, originIndices all have the same length.
C8_AllThreeEqual ==
    \A i \in 1..Len(viewers) :
        /\ Len(viewers[i].lines) = Len(viewers[i].hasANSI)
        /\ viewers[i].task # NoTask =>
               Len(viewers[i].originIndices) = Len(viewers[i].lines)

\* The tailer has appended to the root (it holds more than the loader
\* read), and a filter goroutine is in the middle of its appends.
C8_Witness ==
    /\ Len(viewers[1].lines) > loader.read
    /\ Len(viewers) = 2
    /\ viewers[2].loading
    /\ Len(viewers[2].lines) > 0

\* C9: a filter command in regex mode whose pattern does not compile pushes
\* no viewer: the stack and every viewer on it (so the current topLine, and
\* no new goroutine), the search state, the loader and the tailers are what
\* they were, and a status message is set.
C9_InvalidRegex ==
    [][last'.op = "filter_invalid" =>
        /\ viewers' = viewers
        /\ search' = search
        /\ loader' = loader
        /\ tailers' = tailers
        /\ statusMessage' # ""]_vars

\* An invalid regex was entered with search matches present and the view
\* scrolled down.
C9_Witness ==
    /\ last.op = "filter_invalid"
    /\ last.searched
    /\ search.matches # <<>>
    /\ Current(viewers).topLine > 0
    /\ statusMessage # ""

\* The origin indices of the lines a filtered viewer holds: originIndices
\* once published, the goroutine's allIndices while it is loading.
OriginOf(v) == IF v.loading THEN v.task.allIndices ELSE v.originIndices

\* C10: a pop from a filtered viewer that has lines, loading or not,
\* positions the parent on the line that produced the child's top line:
\* with target = origin[topLine] of the child (origin[last] if topLine is
\* out of range), the parent's topLine becomes the least index whose own
\* origin value is >= target when the parent has origin indices, else target
\* clamped into [0, len - 1]; topLineOffset becomes 0; and for a keep or
\* exclude child, whose origin indices are parent indices, that is line
\* target of the parent.
C10_PopPositionsParent ==
    [][(last'.op = "pop" /\ last'.changed /\ OriginOf(Current(viewers)) # <<>>) =>
        LET child == Current(viewers)
            parent == viewers[Len(viewers) - 1]
            after == Current(viewers')
            origin == OriginOf(child)
            target == IF 0 <= child.topLine /\ child.topLine < Len(origin)
                      THEN origin[child.topLine + 1]
                      ELSE origin[Len(origin)]
            atLeast == {k \in 0..(Len(parent.originIndices) - 1) :
                           parent.originIndices[k + 1] >= target}
        IN  /\ after.topLineOffset = 0
            /\ IF parent.originIndices # <<>>
               THEN atLeast # {} => \A k \in atLeast : after.topLine <= k
               ELSE after.topLine = Max(0, Min(target, LineCount(parent) - 1))
            /\ (parent.originIndices # <<>> /\ atLeast # {}) => after.topLine \in atLeast
            /\ child.task.kind \in {"keep", "exclude"} => after.topLine = target]_vars

\* C11: a reset ('=') from depth k > 1 sets the root viewer's topLine to the
\* original line number of the line at the top of the current viewer, each
\* level's origin map applied exactly once: the index the status bar showed
\* as the traced original line just before the reset.  The current viewer has
\* a line at its top.
C11_ResetToOriginalLine ==
    [][(/\ last'.op = "reset"
        /\ last'.changed
        /\ 0 <= Current(viewers).topLine
        /\ Current(viewers).topLine < LineCount(Current(viewers))) =>
        /\ Len(viewers') = 1
        /\ viewers'[1].topLine = origLine(viewers)]_vars

\* C12: in every state with more than one viewer on the stack whose current
\* viewer has a line at its top, tracing topLine through the origin indices
\* of each level down to the root yields an index in [0, root_len), and the
\* root's line there is the current viewer's top line.
C12_TraceReachesRootLine ==
    LET current == Current(viewers)
        root == viewers[1]
    IN  (/\ Len(viewers) > 1
         /\ 0 <= current.topLine
         /\ current.topLine < LineCount(current)) =>
            /\ 0 <= origLine(viewers)
            /\ origLine(viewers) < LineCount(root)
            /\ GetLine(root, origLine(viewers)) = GetLine(current, current.topLine)

\* The key of the command that made a filtered viewer.
KeyOf(v) == CASE v.task.kind = "keep" -> "&" [] v.task.kind = "exclude" -> "-" [] OTHER -> "+"

\* C13: on content that does not change (every viewer left on the stack has
\* finished loading and holds the lines it held when the popped viewer's
\* filter was issued), popping a completed filter viewer that is positioned
\* on a line (or is empty) and issuing the same filter command with the same
\* query and flags yields, when that filter has completed, a viewer equal to
\* the popped one: the same lines, origin indices and topLine.
C13_PopThenSameFilter ==
    [][(/\ last'.op = "pop"
        /\ last'.changed
        /\ Current(viewers).task.pc = "done"
        /\ Current(viewers).topLine >= 0
        /\ \A i \in 1..Len(viewers') : ~viewers'[i].loading
        /\ Current(viewers).task.parentLen = LineCount(Current(viewers'))
        /\ Current(viewers).task.srcLen =
               LineCount(IF Current(viewers).task.kind = "append" THEN viewers[1]
                         ELSE Current(viewers'))) =>
        LET popped == Current(viewers)
            parent == Current(viewers')
            pushed == FilterViewer(KeyOf(popped), viewers', popped.task.query,
                                   popped.task.isRegex, popped.task.ignoreCase,
                                   parent.topLine, GetLine(parent, parent.topLine))
        IN  /\ Completes(pushed)
            /\ Completed(pushed).lines = popped.lines
            /\ Completed(pushed).originIndices = popped.originIndices
            /\ Completed(pushed).topLine = popped.topLine]_vars

\* Completed is what the goroutine's steps make of a viewer while no key
\* moves it: the step that ends a goroutine ends in Completed.  It holds of
\* SpecBig, where no key moves a viewer.
CompletedIsTaskFinish ==
    [][\A i \in 2..Len(viewers) :
        (Len(viewers') >= i /\ viewers[i].task.pc = "merge" /\ viewers'[i].task.pc = "done") =>
            LET t == viewers[i].task
                pushed == NewViewer(NewTask(t.kind, t.keep, t.src, t.srcANSI, t.cur, t.query,
                                            t.isRegex, t.ignoreCase, t.currentTopLine,
                                            t.currentLine))
            IN  viewers'[i] = [Completed(pushed) EXCEPT !.task.inOrder = t.inOrder]]_vars

\* Whether a line matches a query under a mode: on the text without escape
\* sequences, as a substring, as a substring whatever the case, or as an
\* unanchored regular expression.
MatchesMode(line, query, isRegex, ignoreCase) ==
    LET text == stripANSI(line)
    IN  IF isRegex THEN RegexMatch(query, ignoreCase, text)
        ELSE IF ignoreCase THEN Contains(ToLower(text), ToLower(query))
        ELSE Contains(text, query)

\* The indices (0-based) of the lines that match.
MatchingLines(lines, query, isRegex, ignoreCase) ==
    {i \in 0..(Len(lines) - 1) : MatchesMode(lines[i + 1], query, isRegex, ignoreCase)}

\* The query is one the mode can take: in regex mode the pattern compiles.
ValidQuery(s) == s.isRegex => RegexCompiles(s.query)

MinOf(S) == CHOOSE x \in S : \A y \in S : x <= y

MaxOf(S) == CHOOSE x \in S : \A y \in S : y <= x

\* C14: after every Search call, from whatever start line and in whichever
\* direction, matches is strictly ascending and holds exactly the indices of
\* the lines of the snapshot that match the query under the chosen mode
\* (literal, case-insensitive, regex).
C14_MatchesAreTheMatchingLines ==
    [][(last'.op = "search" /\ ValidQuery(search')) =>
        /\ StrictlyAscending(search'.matches)
        /\ Range(search'.matches) =
               MatchingLines(Current(viewers).lines, search'.query, search'.isRegex,
                             search'.ignoreCase)]_vars

\* A backward search from a line below the top has found several matches in
\* a snapshot with a colored line and a line that does not match.
C14_Witness ==
    /\ last.op = "search"
    /\ search.backward
    /\ Len(search.matches) >= 2
    /\ Len(search.matches) < LineCount(Current(viewers))
    /\ \E i \in 1..Len(search.matches) : Current(viewers).hasANSI[search.matches[i] + 1]

\* C15: a forward search from start returns the smallest matching index
\* >= start and a backward search the largest matching index <= start,
\* whenever there is one, and matches[current] is then the index returned;
\* when no line matches the result is -1 and current is -1.
C15_SearchSelects ==
    [][(last'.op = "search" /\ ValidQuery(search')) =>
        LET start == Current(viewers).topLine
            M == MatchingLines(Current(viewers).lines, search'.query, search'.isRegex,
                               search'.ignoreCase)
            atOrAfter == {i \in M : i >= start}
            atOrBefore == {i \in M : i <= start}
        IN  /\ (~search'.backward /\ atOrAfter # {}) =>
                   /\ last'.ret = MinOf(atOrAfter)
                   /\ search'.matches[search'.current + 1] = last'.ret
            /\ (search'.backward /\ atOrBefore # {}) =>
                   /\ last'.ret = MaxOf(atOrBefore)
                   /\ search'.matches[search'.current + 1] = last'.ret
            /\ M = {} => (last'.ret = -1 /\ search'.current = -1)]_vars

\* A backward search has returned a match that is not the last of the
\* matches.
C15_Witness ==
    /\ last.op = "search"
    /\ search.backward
    /\ last.ret >= 0
    /\ Len(search.matches) >= 2
    /\ search.current < Len(search.matches) - 1

\* C16: Next() with current at the last match, Prev() with current at the
\* first match, and both with no matches, return -1 and leave current as it
\* is; otherwise they move current by exactly one position and return
\* matches[current], so that 0 <= current < len(matches) is preserved.
C16_NextPrevAtTheBoundary ==
    [][(last'.op \in {"Next", "Prev"}) =>
        LET n == Len(search.matches)
            step == IF last'.op = "Next" THEN 1 ELSE -1
            atBoundary == IF last'.op = "Next" THEN search.current = n - 1
                          ELSE search.current = 0
        IN  /\ search'.matches = search.matches
            /\ IF n = 0 \/ atBoundary
               THEN last'.ret = -1 /\ search'.current = search.current
               ELSE /\ search'.current = search.current + step
                    /\ last'.ret = search.matches[search'.current + 1]
            /\ (0 <= search.current /\ search.current < n) =>
                   (0 <= search'.current /\ search'.current < n)]_vars

\* Next() has been called at the last of several matches: it returned -1 and
\* current is still at the last match.
C16_Witness ==
    /\ last.op = "Next"
    /\ last.ret = -1
    /\ Len(search.matches) >= 2
    /\ search.current = Len(search.matches) - 1

C18_TopLineInRange ==
    \A i \in 1..Len(viewers) :
        /\ viewers[i].topLine >= 0
        /\ LineCount(viewers[i]) > 0 => viewers[i].topLine < LineCount(viewers[i])

\* C19: encoding a history record and decoding it again gives back the
\* query and the two flags, for every query and every pair of flags, also for
\* a query that is empty or begins with '|', 'r', 'i' or '-': of what a call
\* was made with, of the entry AddWithModifiers has appended and of the
\* input UpWithModifiers has saved.
C19_EncodeDecodeIdentity ==
    [][(last'.op \in {"AddWithModifiers", "Up", "Down"}) =>
        LET typed == <<last'.query, last'.isRegex, last'.ignoreCase>>
        IN  /\ decodeHistoryEntry(encodeHistoryEntry(last'.query, last'.isRegex,
                                                     last'.ignoreCase)) = typed
            /\ (last'.op = "AddWithModifiers" /\ history'.entries # history.entries) =>
                   decodeHistoryEntry(history'.entries[Len(history'.entries)]) = typed
            /\ (last'.op = "Up" /\ history.index = -1 /\ Len(history.entries) > 0) =>
                   decodeHistoryEntry(history'.tempInput) = typed]_vars

\* The first Up of a prompt has saved an empty input typed in regex mode,
\* and the newest entry of the history is a query that begins with the flag
\* characters.
C19_Witness ==
    /\ last.op = "Up"
    /\ last.query = <<>>
    /\ last.isRegex
    /\ history.tempInput = <<"r", "-", "|">>
    /\ Len(history.entries) > 0
    /\ history.entries[Len(history.entries)] = <<"-", "i", "|", "r", "i", "|">>

\* C20: after any sequence of additions the history holds at most
\* maxHistoryEntries records, in the list in memory that up/down navigate
\* and in the history file.
C20_HistoryAtMost100 ==
    /\ Len(history.entries) <= maxHistoryEntries
    /\ Len(history.saved) <= maxHistoryEntries

\* C21: follow mode ends with the toggle that turns it off: the tailers
\* started before that toggle stop, also when follow is turned on again
\* right away, so that at no time more than one followFile goroutine is
\* active for the root viewer.
C21_AtMostOneTailer == Len(tailers) <= 1

\* The root indices the append-from-origin filter is to produce: a walk over
\* the root that takes a line when the parent still has an unused copy of it
\* (and uses that copy up) or when the line matches.
RECURSIVE AppendFromOrigin(_, _, _, _, _, _)
AppendFromOrigin(root, i, left, query, isRegex, ignoreCase) ==
    IF i >= Len(root) THEN <<>>
    ELSE LET line == root[i + 1]
             inParent == left[line] > 0
             matches == Matcher(query, isRegex, ignoreCase, stripANSI(line), FALSE)
         IN  (IF inParent \/ matches THEN <<i>> ELSE <<>>)
             \o AppendFromOrigin(root, i + 1,
                    IF inParent THEN [left EXCEPT ![line] = @ - 1] ELSE left,
                    query, isRegex, ignoreCase)

\* s is a subsequence of t, from position i of s and j of t (1-based).
RECURSIVE SubsequenceFrom(_, _, _, _)
SubsequenceFrom(s, i, t, j) ==
    IF i > Len(s) THEN TRUE
    ELSE IF j > Len(t) THEN FALSE
    ELSE IF s[i] = t[j] THEN SubsequenceFrom(s, i + 1, t, j + 1)
    ELSE SubsequenceFrom(s, i, t, j + 1)

IsSubsequence(s, t) == SubsequenceFrom(s, 1, t, 1)

\* C22: when an append-from-origin filter ('+') completes, the viewer holds,
\* in root order, exactly the root lines that are marked as present in the
\* parent (a multiset count of the parent's lines, used up along the root) or
\* match the pattern; the parent's lines are a subsequence of the output and
\* the output is a subsequence of the root.
C22_AppendFromOrigin ==
    [][\A i \in 2..Len(viewers) :
        (/\ Len(viewers') >= i
         /\ viewers[i].task.pc = "merge"
         /\ viewers'[i].task.pc = "done"
         /\ viewers[i].task.kind = "append") =>
            LET t == viewers[i].task
                root == t.src
                parent == t.cur
                counts == [x \in Range(root) \cup Range(parent) |-> CountIn(parent, x)]
                expected == AppendFromOrigin(root, 0, counts, t.query, t.isRegex,
                                             t.ignoreCase)
                out == viewers'[i].lines
            IN  /\ root = viewers[1].lines
                /\ viewers'[i].originIndices = expected
                /\ out = [k \in 1..Len(expected) |-> root[expected[k] + 1]]
                /\ IsSubsequence(parent, out)
                /\ IsSubsequence(out, root)]_vars

\* A '+' filter has completed whose parent held one of two equal root lines:
\* the output has the parent's lines, lines that match, and neither all of
\* the root nor only the parent.
C22_Witness ==
    /\ Len(viewers) = 3
    /\ viewers[3].task.pc = "done"
    /\ viewers[3].task.kind = "append"
    /\ viewers[3].task.parentLen = 1
    /\ \E k \in 1..Len(viewers[1].lines) :
          /\ CountIn(viewers[1].lines, viewers[1].lines[k]) = 2
          /\ CountIn(viewers[3].lines, viewers[1].lines[k]) = 1
    /\ Len(viewers[3].lines) > 1
    /\ Len(viewers[3].lines) < Len(viewers[1].lines)

\* The lines emitted so far by the merge.
Emitted == viewers[1].lines \o merger.batch

\* The streams that are not exhausted, and those of them whose pending line
\* has no timestamp.
LiveStreams == {j \in 1..Len(merger.streams) : ~merger.streams[j].exhausted}

TimelessStreams == {j \in LiveStreams : ~merger.streams[j].hasTime}

\* The number of lines stream k has read from its file.
LinesRead(k) == Len(merger.files[k]) - Len(merger.streams[k].rest)

\* C23: every line the merger emits comes from the lowest-indexed live stream
\* whose pending line has no timestamp if there is one, otherwise from the
\* live stream with the smallest pending timestamp, the lowest index on a
\* tie; and a line without a timestamp that is not the first of its file is
\* emitted directly after the line that precedes it in its file.
C23_MergePick ==
    [][(merger.pc = "merge" /\ last'.op = "pick") =>
        LET k == last'.stream
            S == merger.streams
        IN  /\ k \in LiveStreams
            /\ Emitted' = Append(Emitted, S[k].currLine)
            /\ TimelessStreams # {} =>
                   k = MinOf(TimelessStreams)
            /\ TimelessStreams = {} =>
                   /\ \A j \in LiveStreams : S[k].currTime <= S[j].currTime
                   /\ \A j \in LiveStreams : S[j].currTime = S[k].currTime => k <= j
            /\ (~S[k].hasTime /\ LinesRead(k) >= 2) =>
                   /\ Emitted # <<>>
                   /\ Emitted[Len(Emitted)] =
                          S[k].prefix \o merger.files[k][LinesRead(k) - 1]]_vars

\* The merger has emitted a line without a timestamp of the last file right
\* after the line before it, while the first stream has a timestamp pending.
C23_Witness ==
    /\ merger.pc = "merge"
    /\ last.op = "pick"
    /\ last.stream = MergeStreams
    /\ Len(Emitted) >= 2
    /\ Emitted[Len(Emitted)] = Prefix(MergeStreams - 1) \o <<"x">>
    /\ Emitted[Len(Emitted) - 1] = Prefix(MergeStreams - 1) \o <<"1">>
    /\ 1 \in LiveStreams
    /\ merger.streams[1].hasTime
    /\ merger.streams[1].currTime = 2

\* A step of a background goroutine: the file loader, a filter goroutine or
\* a followFile goroutine.
BackgroundStep == Producers \/ Tailers

\* C24: the display state of a viewer is written by the event loop only: no
\* step of a background goroutine (loader, follow tailer, filter) changes the
\* topLine of a viewer, so that a topLine a command has set is not
\* overwritten by a goroutine that runs later.
C24_BackgroundKeepsTopLine ==
    [][BackgroundStep =>
        \A i \in 1..Len(viewers) :
            /\ viewers'[i].topLine = viewers[i].topLine
            /\ viewers'[i].topLineOffset = viewers[i].topLineOffset]_vars

\* The matches of the search just made all lie before its start line, or all
\* after it.
AllBefore(s, start) == s.matches # <<>> /\ \A k \in 1..Len(s.matches) : s.matches[k] < start

AllAfter(s, start) == s.matches # <<>> /\ \A k \in 1..Len(s.matches) : s.matches[k] > start

\* The case of C25: a search found matches, all of them on the other side of
\* its start line.
NothingAhead(s, l) ==
    /\ l.op = "Search"
    /\ ValidQuery(s)
    /\ IF s.backward THEN AllAfter(s, l.start) ELSE AllBefore(s, l.start)

\* C25 (as written): a search whose matches all lie on the other side of the
\* start line returns -1, leaves matches populated and sets current to 0, in
\* both directions.
C25_FallbackToFirst ==
    [][NothingAhead(search', last') =>
        /\ last'.ret = -1
        /\ search'.matches # <<>>
        /\ search'.current = 0]_vars

\* C25 (amended): such a search returns -1, leaves in matches the indices of
\* all matching lines in ascending order, and sets current to 0 when
\* searching backward and to the last match when searching forward.
C25_FallbackToNearest ==
    [][NothingAhead(search', last') =>
        /\ last'.ret = -1
        /\ Range(search'.matches) =
               MatchingLines(viewers[1].lines, search'.query, search'.isRegex,
                             search'.ignoreCase)
        /\ StrictlyAscending(search'.matches)
        /\ search'.current = IF search'.backward THEN 0 ELSE Len(search'.matches) - 1]_vars

\* A forward search has found two matches or more, all before its start.
C25_Witness ==
    /\ NothingAhead(search, last)
    /\ ~search.backward
    /\ Len(search.matches) >= 2
    /\ last.ret = -1

\* The number of screen rows line lineIdx of viewer v takes now.
Expanded(v, lineIdx) == getExpandedLineCount(v, lineIdx).count

\* The offset invariant of a viewer.
OffsetInRange(v) ==
    IF v.wordWrap \/ v.jsonPretty
    THEN 0 <= v.topLineOffset /\ v.topLineOffset < Expanded(v, v.topLine)
    ELSE v.topLineOffset = 0

\* C26: after any sequence of commands (navigation, paging, ':N', search and
\* n/N, the mode toggles 'w' and 'f', a resize of the terminal), the current
\* viewer has 0 <= topLineOffset < expanded rows of topLine when word wrap or
\* JSON mode is on, and topLineOffset = 0 when both are off.
C26_OffsetInRange == OffsetInRange(Current(viewers))

\* Where a viewer stands: its top line and the row of it at the top.
Position(v) == <<v.topLine, v.topLineOffset>>

Wrapping(v) == v.wordWrap \/ v.jsonPretty

\* The viewer of TestNavigateWithOffset: a line of 100 characters and a short
\* one, word wrap at width 20.
TestViewer(v) ==
    /\ v.lines = <<LongLine, Short>>
    /\ v.width = 20
    /\ v.wordWrap
    /\ ~v.jsonPretty

\* C27: in wrap or JSON mode navigateDown advances one screen row: below the
\* last row of the top line it adds one to topLineOffset; on the last row it
\* goes to row 0 of the next line if there is one and otherwise changes
\* nothing.  For a line of 100 characters at width 20, four steps from (0, 0)
\* give (0, 4) and the fifth gives (1, 0).
C27_NavigateDownByRow ==
    [][(KeyDown /\ Wrapping(Current(viewers)) /\ LineCount(Current(viewers)) > 0) =>
        LET v == Current(viewers)
            rows == ExpandedRows(v, v.topLine)
            after == Position(Current(viewers'))
        IN  /\ after = IF v.topLineOffset < rows - 1
                       THEN <<v.topLine, v.topLineOffset + 1>>
                       ELSE IF v.topLine # LineCount(v) - 1
                       THEN <<v.topLine + 1, 0>>
                       ELSE Position(v)
            /\ (TestViewer(v) /\ Position(v) = <<0, 0>>) =>
                   /\ rows = 5
                   /\ Position(DownTimes(v, 4)) = <<0, 4>>
                   /\ Position(DownTimes(v, 5)) = <<1, 0>>
            /\ (TestViewer(v) /\ Position(v) = <<0, 4>>) => after = <<1, 0>>]_vars

\* The viewer of the test stands on its second line after it went through
\* the five rows of the first.
C27_Witness ==
    LET v == Current(viewers)
    IN  /\ TestViewer(v)
        /\ Position(v) = <<1, 0>>
        /\ <<0, 5>> \in v.expandedCache
        /\ v.expandedCacheKey = CacheKey(TRUE, FALSE, 20)

\* The positions of viewer v that satisfy the offset invariant.
Positions(v) ==
    UNION {{<<t, o>> : o \in 0..(IF Wrapping(v) THEN ExpandedRows(v, t) - 1 ELSE 0)} :
              t \in 0..(LineCount(v) - 1)}

\* C28: navigateUp undoes navigateDown: when the viewer stands where a
\* navigateDown that moved has taken it from a position that satisfies the
\* offset invariant, navigateUp takes it back to that position (in plain
\* mode: to that top line).
C28_UpUndoesDown ==
    [][KeyUp =>
        LET v == Current(viewers)
        IN  \A p \in Positions(v) :
                LET from == [v EXCEPT !.topLine = p[1], !.topLineOffset = p[2]]
                IN  (Position(navigateDown(from)) = Position(v) /\ Position(v) # p) =>
                        Position(Current(viewers')) = p]_vars

\* The viewer stands on the last of several rows of a line that has a line
\* after it, in JSON mode: where navigateUp arrives from the line below.
C28_Witness ==
    LET v == Current(viewers)
    IN  /\ v.jsonPretty
        /\ ~v.wordWrap
        /\ v.lines = <<JsonLine, Short, LongLine>>
        /\ Position(v) = <<0, 3>>
        /\ <<0, 4>> \in v.expandedCache

\* C29: in plain mode pageDown sets topLine to min(topLine + height, last
\* line index), 0 for an empty buffer, and pageUp to max(topLine - height,
\* 0); in wrap or JSON mode they are height times navigateDown and height
\* times navigateUp.
C29_Paging ==
    [][LET v == Current(viewers)
           after == Current(viewers')
       IN  /\ (KeyPageDown /\ ~Wrapping(v)) =>
                  after.topLine = IF LineCount(v) = 0 THEN 0
                                  ELSE Min(v.topLine + v.height, LineCount(v) - 1)
           /\ (KeyPageUp /\ ~Wrapping(v)) =>
                  after.topLine = Max(v.topLine - v.height, 0)
           /\ (KeyPageDown /\ Wrapping(v)) =>
                  Position(after) = Position(DownTimes(v, v.height))
           /\ (KeyPageUp /\ Wrapping(v)) =>
                  Position(after) = Position(UpTimes(v, v.height))]_vars

\* A page down in wrap mode has ended inside the long line: the viewer of the
\* test, two rows high, stands on row 2 of its first line.
C29_Witness ==
    LET v == Current(viewers)
    IN  /\ TestViewer(v)
        /\ v.height = 2
        /\ Position(v) = <<0, 2>>
        /\ v.expandedCache = {<<0, 5>>}

\* The characters of a sequence of cells.
CharsOf(cells) == [k \in 1..Len(cells) |-> cells[k].ch]

\* C30: for every line, the char fields of the cells parseANSI returns, put
\* together, are stripANSI of the line: for lines with SGR sequences, with
\* escape sequences that end with a letter other than m, and with escape
\* sequences that do not end before the line does.
C30_CellsAreStripped ==
    last.op = "cells" => CharsOf(last.cells) = stripANSI(file[1])

\* The count getExpandedLineCount owes for a line: one row outside the
\* buffer and without a width, else the rows computed from the line.
FreshCount(v, lineIdx) ==
    IF lineIdx < 0 \/ lineIdx >= LineCount(v) \/ v.width <= 0 THEN 1
    ELSE ExpandedRows(v, lineIdx)

\* ceil(n / d), at least 1.
CeilAtLeastOne(n, d) == Max((n + d - 1) \div d, 1)

\* C31: getExpandedLineCount returns at least 1 for every line index, mode
\* and width (indices outside the buffer, empty lines and width <= 0
\* included); it returns 1 when word wrap and JSON mode are both off, and
\* when only JSON mode is on and the line is not JSON; with wrap on and JSON
\* off it returns ceil(cells / width), at least 1.
C31_ExpandedCount ==
    LET v == Current(viewers)
    IN  \A lineIdx \in -1..LineCount(v) :
            LET n == getExpandedLineCount(v, lineIdx).count
                line == GetLine(v, lineIdx)
                inside == lineIdx >= 0 /\ lineIdx < LineCount(v) /\ v.width > 0
            IN  /\ n >= 1
                /\ ~v.wordWrap /\ ~v.jsonPretty => n = 1
                /\ ~v.wordWrap /\ v.jsonPretty /\ ~isJSON(line) => n = 1
                /\ v.wordWrap /\ ~v.jsonPretty =>
                       n = IF inside THEN CeilAtLeastOne(Len(parseANSI(line)), v.width)
                           ELSE 1

\* A short line wrapped at width 2 was counted: three rows.
C31_Witness ==
    /\ last.op = "count"
    /\ last.lineIdx = 1
    /\ last.count = 3
    /\ Current(viewers).wordWrap
    /\ ~Current(viewers).jsonPretty
    /\ Current(viewers).width = 2

\* The entries of the cache belong to the viewer's present mode and width.
CacheIsCurrent(v) ==
    v.expandedCacheKey = CacheKey(v.wordWrap, v.jsonPretty, v.width)

\* C32: the cache of expanded rows never serves a stale value: after any
\* sequence of 'w', 'f', resizes and lookups, the count getExpandedLineCount
\* returns for a line is the count computed from scratch under the present
\* word wrap, JSON mode and width.
C32_CacheNeverStale ==
    LET v == Current(viewers)
    IN  /\ \A lineIdx \in -1..LineCount(v) :
               getExpandedLineCount(v, lineIdx).count = FreshCount(v, lineIdx)
        /\ last.op = "count" => last.count = FreshCount(v, last.lineIdx)

\* A lookup was answered after the cache had been emptied: the cache holds
\* entries of the present key, stored under a width other than the first.
C32_Witness ==
    /\ last.op = "count"
    /\ last.lineIdx = 3
    /\ last.count = 5
    /\ Current(viewers).jsonPretty
    /\ Current(viewers).wordWrap
    /\ Current(viewers).width = 3
    /\ CacheIsCurrent(Current(viewers))
    /\ Cardinality(Current(viewers).expandedCache) >= 2

\* A record that starts with a flag prefix: r or -, i or -, and a bar.
HasFlagPrefix(entry) ==
    /\ Len(entry) >= 3
    /\ entry[1] \in {"r", "-"}
    /\ entry[2] \in {"i", "-"}
    /\ entry[3] = "|"

\* C33: a record of the history file that does not start with a flag prefix
\* (r or -, i or -, '|') is given to the prompt as a literal, case-sensitive
\* query whose text is the whole record, also when its third character is
\* '|'.
C33_LegacyIsLiteral ==
    [][(last'.op \in {"Up", "Down"} /\ history'.index >= 0
            /\ ~HasFlagPrefix(history'.entries[history'.index + 1]))
          => last'.out = <<history'.entries[history'.index + 1], FALSE, FALSE>>]_vars

\* The same for the records whose third character is not '|'.
C33_NoBarIsLiteral ==
    [][(last'.op \in {"Up", "Down"} /\ history'.index >= 0
            /\ ~(Len(history'.entries[history'.index + 1]) >= 3
                  /\ history'.entries[history'.index + 1][3] = "|"))
          => last'.out = <<history'.entries[history'.index + 1], FALSE, FALSE>>]_vars

\* What the prompt held when the last step called the history.
Typed(step) == <<step.query, step.isRegex, step.ignoreCase>>

\* The entry of the history at a 0-based index, decoded.
EntryAt(h, i) == decodeHistoryEntry(h.entries[i + 1])

\* An Up of the prompt, from history h to g, returning out.
UpStep(h, g, typed, out) ==
    IF Len(h.entries) = 0 THEN g = h /\ out = typed
    ELSE /\ g.entries = h.entries
         /\ out = EntryAt(g, g.index)
         /\ IF h.index = -1
            THEN g.index = Len(h.entries) - 1 /\ decodeHistoryEntry(g.tempInput) = typed
            ELSE /\ g.index = Max(h.index - 1, 0)
                 /\ g.tempInput = h.tempInput

\* A Down of the prompt, from history h to g, returning out.
DownStep(h, g, typed, out) ==
    IF h.index = -1 THEN g = h /\ out = typed
    ELSE /\ g.entries = h.entries
         /\ g.tempInput = h.tempInput
         /\ IF h.index = Len(h.entries) - 1
            THEN g.index = -1 /\ out = decodeHistoryEntry(h.tempInput)
            ELSE g.index = h.index + 1 /\ out = EntryAt(g, g.index)

\* C34: history navigation keeps -1 <= index < len(entries).  The first Up
\* saves what is being typed and returns the newest entry, further Ups go
\* to older entries and stop at the oldest, Down goes to newer entries, and
\* a Down from the newest entry returns what was saved and sets index to
\* -1; Up does nothing on an empty history and Down nothing at index -1.
C34_HistoryNavigation ==
    /\ [](-1 <= history.index /\ history.index < Len(history.entries))
    /\ [][/\ last'.op = "Up" => UpStep(history, history', Typed(last'), last'.out)
          /\ last'.op = "Down" => DownStep(history, history', Typed(last'), last'.out)]_vars

\* A Down from the newest of two entries gave back what the first Up had
\* saved, which is not what the prompt held at the Down.
C34_Witness ==
    /\ last.op = "Down"
    /\ history.index = -1
    /\ Len(history.entries) = 2
    /\ history.tempInput # <<>>
    /\ last.out = decodeHistoryEntry(history.tempInput)
    /\ last.out # Typed(last)

\* The view of the root shows the tail of its buffer.
AtTail(v) == v.topLine >= Len(v.lines) - Height

\* C35: when a follow tailer appends new lines to the root, a view that was
\* at the tail before the append (topLine >= old length - height) is at
\* max(0, new length - height) afterwards, and a view that was not at the
\* tail keeps its topLine.
C35_FollowAutoScroll ==
    [][\A k \in 1..TwoTailers :
          TailerAppend(k) =>
              viewers'[1].topLine =
                  IF AtTail(viewers[1]) THEN Max(0, Len(viewers'[1].lines) - Height)
                  ELSE viewers[1].topLine]_vars

\* The root viewer holds every line of its source.
RootHoldsSource == viewers[1].lines = file

\* C36: the loading flag of a viewer loaded from a file or from standard
\* input is true from creation until the source is exhausted and false for
\* ever after; it becomes false only after the last batch of lines has been
\* appended, so a frame drawn once loading has ended (the loader interrupts
\* the event loop for one) shows every line and no loading marker.
C36_LoadingFlag ==
    /\ [](loader.pc # "done" => viewers[1].loading)
    /\ [](~viewers[1].loading => loader.pc = "done" /\ RootHoldsSource)
    /\ [][~viewers[1].loading => ~viewers'[1].loading]_vars
    /\ <>(~viewers[1].loading \/ ~Running)

\* The loader has finished a file of three lines and the loop has drawn a
\* frame of the root since.
C36_Witness ==
    /\ ~viewers[1].loading
    /\ Len(viewers) = 1
    /\ Len(viewers[1].lines) = MaxFileLen
    /\ viewers[1].lines = file
    /\ loader.pc = "done"
    /\ last.op = "other"
    /\ viewers[1].topLine = MaxFileLen - 1

\* The position of the first output line whose origin index is >= p; 0 when
\* there is none.
SeedPosition(origin, p) ==
    LET at == {k \in 1..Len(origin) : origin[k] >= p}
    IN  IF at = {} THEN 0 ELSE (CHOOSE k \in at : \A j \in at : k <= j) - 1

\* The keep or exclude filter of the viewer at position i completes.
SeededFinish(i) ==
    /\ TaskFinish(i)
    /\ viewers[i].task.kind # "append"

\* The seeding itself: the write of topLine by the filter goroutine.
C37_SeedWrite ==
    [][\A i \in 2..MaxDepth :
          MergeSeed(i) =>
              viewers'[i].topLine =
                  SeedPosition(viewers[i].task.allIndices, viewers[i].task.currentTopLine)]_vars

C38_RootIsFilePrefix ==
    /\ Len(viewers[1].lines) <= Len(file)
    /\ viewers[1].lines = SubSeq(file, 1, Len(viewers[1].lines))

\* C39: in every reachable state every index in search.matches is a line
\* index of the current viewer (0 <= m < its line count) and, when matches
\* is not empty, 0 <= current < len(matches); this holds across filters,
\* pops, resets and background appends.
C39_MatchesAreLines ==
    /\ \A k \in 1..Len(search.matches) :
           0 <= search.matches[k] /\ search.matches[k] < LineCount(Current(viewers))
    /\ search.matches # <<>> =>
           0 <= search.current /\ search.current < Len(search.matches)

\* A search found two lines of a filtered viewer that was still streaming,
\* and the viewer has completed since.
C39_Witness ==
    /\ Len(viewers) = 2
    /\ Len(search.matches) = 2
    /\ search.current = 1
    /\ ~Current(viewers).loading
    /\ LineCount(Current(viewers)) = 2

\* A line index of viewer v.
IsLineOf(v, i) == 0 <= i /\ i < LineCount(v)

\* The selection is made of lines of the current viewer and its cursor is in
\* the window.
VisualInRange ==
    LET v == Current(viewers)
    IN  /\ IsLineOf(v, visual.visualStart)
        /\ IsLineOf(v, visual.visualCursor)
        /\ v.topLine <= visual.visualCursor
        /\ visual.visualCursor < v.topLine + v.height

\* The lines lo .. hi of viewer v, escapes stripped.
LinesBetween(v, lo, hi) ==
    SubSeq([k \in 1..LineCount(v) |-> stripANSI(v.lines[k])], lo + 1, hi + 1)

\* C40: while visual mode is on, after any sequence of the commands accepted
\* in it (cursor moves, paging, g/G, search and n/N, ':N', filters, pop and
\* reset), visualStart and visualCursor are line indices of the current
\* viewer and visualCursor is in the window [topLine, topLine + height);
\* 'y' copies exactly the lines min(visualStart, visualCursor) ..
\* max(visualStart, visualCursor) of the current viewer and leaves visual
\* mode.
C40_VisualSelection ==
    /\ visual.visualMode => VisualInRange
    /\ last.op = "yank" =>
           /\ ~visual.visualMode
           /\ IsLineOf(Current(viewers), last.visualStart)
           /\ IsLineOf(Current(viewers), last.visualCursor)
           /\ last.text = LinesBetween(Current(viewers),
                                       Min(last.visualStart, last.visualCursor),
                                       Max(last.visualStart, last.visualCursor))

\* The moves of visual mode keep a selection that is in range in range.
C40_MovesKeepRange ==
    [][(visual.visualMode /\ VisualInRange /\ VisualMoves) => VisualInRange']_vars

\* A yank of a selection that is in range copies its lines.
C40_YankInRange ==
    [][(VisualInRange /\ KeyYank) =>
           last'.text = LinesBetween(Current(viewers),
                                     Min(visual.visualStart, visual.visualCursor),
                                     Max(visual.visualStart, visual.visualCursor))]_vars
====
